---- MODULE Spec2Model ----
(***************************************************************************)
(* FemtoXML Studio: the XML editor tree (utils/xmlTree, XmlEditor), the    *)
(* comparison host (XmlComparison) and the diff engine it talks to.        *)
(***************************************************************************)
EXTENDS Integers, Sequences, FiniteSets, TLC

VARIABLES
    \* ---- XmlEditor ----
    xmlContent,      \* useState("") raw text of the loaded document
    tree,            \* useState<EditableNode[]>([])
    error,           \* useState<string | null>(null)
    history,         \* historyRef.current
    historyIndex,    \* historyIndexRef.current
    canUndo,         \* useState(false)
    canRedo,         \* useState(false)
    thrown,          \* TRUE when the last handler ended with an uncaught TypeError
    lastOp,          \* name of the last editor handler that ran
    opCount,         \* number of editor handlers run so far (bounded by MaxOps)
    \* ---- one run of the diff engine on two parsed documents ----
    dLeft,           \* the left canonical tree
    dRight,          \* the right canonical tree
    dResult,         \* null, or the differences and stats of the run
    \* ---- one use of utils/xmlTree on a parsed document ----
    utElements,      \* the element array given to buildEditableTree
    utPathStr,       \* the path string given to findNodeByParameterPath
    utTree,          \* null, or the tree buildEditableTree returned
    utFound,         \* null, or what the lookup of utPathStr returned
    utFoundSlashed,  \* null, or what the lookup of utPathStr with slashes returned
    \* ---- BulkXmlEditor ----
    bulkResults,     \* useState<BulkResult[]>([])
    editedTree,      \* useState<EditableNode[] | null>(null)
    bulkTrail,       \* per row handled: the tree before it and what the call returned
    \* ---- XmlComparison (host) ----
    leftXml,         \* useState(sampleLeft)
    rightXml,        \* useState(sampleRight)
    isComparing,     \* useState(false)
    leftError,       \* useState<string | undefined>(undefined)
    rightError,      \* useState<string | undefined>(undefined)
    differences,     \* useState<Diff[]>([])
    stats,           \* useState<Stats>({added: 0, removed: 0, changed: 0})
    progress,        \* useState<Progress>(null)
    lastRun,         \* useState<Date | null>(null)
    listeners,       \* the onMessage closures registered on the worker, by request
    \* ---- the worker running the diff engine ----
    inbox,           \* requests posted to the worker and not yet taken up
    eng,             \* the engine: phase, request, parse results, chunk counters
    outbox,          \* messages posted by the worker and not yet dispatched
    \* ---- bookkeeping for the properties ----
    reqCount,        \* number of requests posted so far
    seen,            \* per request: terminal messages handled, and late handling
    \* ---- XmlComparison: the filters of the differences view ----
    filter,          \* useState("")
    changeFilter,    \* useState({added: true, removed: true, changed: true})
    excludedQuickFilters  \* useState(new Set())

edVars == <<xmlContent, tree, error, history, historyIndex, canUndo, canRedo,
            thrown, lastOp, opCount>>

diffVars == <<dLeft, dRight, dResult>>

treeVars == <<utElements, utPathStr, utTree, utFound, utFoundSlashed,
              bulkResults, editedTree, bulkTrail>>

hostVars == <<leftXml, rightXml, isComparing, leftError, rightError, differences,
              stats, progress, lastRun, listeners>>

workerVars == <<inbox, eng, outbox>>

cmpVars == <<hostVars, workerVars, reqCount, seen>>

bulkVars == <<bulkResults, editedTree, bulkTrail>>

viewVars == <<filter, changeFilter, excludedQuickFilters>>

vars == <<edVars, diffVars, treeVars, cmpVars, viewVars>>

\* ------------------------------------------------------------------------
\* Bounds
\* ------------------------------------------------------------------------
MaxOps == 4
MaxKids == 2
MaxRequests == 2
MaxChunks == 2
MaxParts == 3
MaxRows == 2
EditsBefore == 47

\* ------------------------------------------------------------------------
\* Strings
\* ------------------------------------------------------------------------
Null == "null"

IsWs(c) == c \in {" ", "\n", "\t"}

IsDigit(c) == c \in {"0", "1", "2", "3", "4", "5", "6", "7", "8", "9"}

RECURSIVE TrimStart(_)
TrimStart(s) ==
    IF Len(s) > 0 /\ IsWs(SubSeq(s, 1, 1))
    THEN TrimStart(SubSeq(s, 2, Len(s)))
    ELSE s

RECURSIVE TrimEnd(_)
TrimEnd(s) ==
    IF Len(s) > 0 /\ IsWs(SubSeq(s, Len(s), Len(s)))
    THEN TrimEnd(SubSeq(s, 1, Len(s) - 1))
    ELSE s

\* String.prototype.trim
Trim(s) == TrimEnd(TrimStart(s))

UpperCase == "ABCDEFGHIJKLMNOPQRSTUVWXYZ"

LowerCase == "abcdefghijklmnopqrstuvwxyz"

LowerChar(c) ==
    IF \E i \in 1..Len(UpperCase) : SubSeq(UpperCase, i, i) = c
    THEN LET i == CHOOSE i \in 1..Len(UpperCase) : SubSeq(UpperCase, i, i) = c
         IN SubSeq(LowerCase, i, i)
    ELSE c

RECURSIVE toLowerCase(_)
\* String.prototype.toLowerCase
toLowerCase(s) ==
    IF s = "" THEN "" ELSE LowerChar(SubSeq(s, 1, 1)) \o toLowerCase(SubSeq(s, 2, Len(s)))

\* String.prototype.includes
includes(s, q) ==
    \E i \in 1..(Len(s) - Len(q) + 1) : SubSeq(s, i, i + Len(q) - 1) = q

\* String.prototype.endsWith
endsWith(s, q) ==
    Len(q) <= Len(s) /\ SubSeq(s, Len(s) - Len(q) + 1, Len(s)) = q

RECURSIVE JoinAll(_)
JoinAll(ss) == IF ss = <<>> THEN "" ELSE Head(ss) \o JoinAll(Tail(ss))

RECURSIVE SeqFilterEl(_)
\* elements.filter(n => n.type === "element")
SeqFilterEl(ns) ==
    IF ns = <<>> THEN <<>>
    ELSE IF Head(ns).type = "element"
         THEN <<Head(ns)>> \o SeqFilterEl(Tail(ns))
         ELSE SeqFilterEl(Tail(ns))

RECURSIVE SeqFilterTextOnly(_)
\* SeqFilterText leaving the CDATA nodes out
SeqFilterTextOnly(ns) ==
    IF ns = <<>> THEN <<>>
    ELSE IF Head(ns).type = "text"
         THEN <<Head(ns)>> \o SeqFilterTextOnly(Tail(ns))
         ELSE SeqFilterTextOnly(Tail(ns))

RECURSIVE SeqFilterText(_)
\* elements.filter(n => n.type === "text" || n.type === "cdata")
SeqFilterText(ns) ==
    IF ns = <<>> THEN <<>>
    ELSE IF Head(ns).type \in {"text", "cdata"}
         THEN <<Head(ns)>> \o SeqFilterText(Tail(ns))
         ELSE SeqFilterText(Tail(ns))

\* ------------------------------------------------------------------------
\* Parsed documents (the element arrays xml2js hands to the application)
\* ------------------------------------------------------------------------
El(name, attrs, elements) ==
    [type |-> "element", name |-> name, attributes |-> attrs, elements |-> elements]

Txt(t) == [type |-> "text", text |-> t]

CData(t) == [type |-> "cdata", text |-> t]

Comment(t) == [type |-> "comment", comment |-> t]

Attr(k, v) == [key |-> k, value |-> v]

Ok(elements) == [ok |-> TRUE, elements |-> elements]

Bad(msg) == [ok |-> FALSE, message |-> msg]

\* Raw texts of the documents given to the editor.
EdEmpty == "  "
EdItems == "<r><i1 x=\"1\"> 5 </i1><i1>6</i1><b.c/></r>"
EdNested == "<r><i1><p>1</p></i1><i2>2</i2><!--c--></r>"
EdMixed == "<a> x<b/><![CDATA[ y]]> </a>"
EdBroken == "<a><b></a>"

EditorDocs == {EdEmpty, EdItems, EdNested, EdMixed, EdBroken}

\* xml2js(xmlContent, {compact: false, ignoreDeclaration: true}): the parsed
\* element array, or the error the strict parser throws.
Xml2js(raw) ==
    CASE raw = EdItems ->
           Ok(<<El("r", <<>>, <<El("i1", <<Attr("x", "1")>>, <<Txt(" 5 ")>>),
                                El("i1", <<>>, <<Txt("6")>>),
                                El("b.c", <<>>, <<>>)>>)>>)
      [] raw = EdNested ->
           Ok(<<El("r", <<>>, <<El("i1", <<>>, <<El("p", <<>>, <<Txt("1")>>)>>),
                                El("i2", <<>>, <<Txt("2")>>),
                                Comment("c")>>)>>)
      [] raw = EdMixed ->
           Ok(<<El("a", <<>>, <<Txt(" x"), El("b", <<>>, <<>>), CData(" y"), Txt(" ")>>)>>)
      [] raw = EdBroken -> Bad("Unexpected close tag")
      [] OTHER -> Ok(<<>>)

\* ------------------------------------------------------------------------
\* utils/xmlTree
\* ------------------------------------------------------------------------
Node(id, name, value, attrs, children) ==
    [id |-> id, path |-> id, name |-> name, value |-> value,
     attributes |-> attrs, isText |-> TRUE, children |-> children]

\* siblingCounts[name] || 0
CountOf(siblingCounts, name) ==
    IF name \in DOMAIN siblingCounts THEN siblingCounts[name] ELSE 0

\* the count of a name is never stored
SetCountForgets(siblingCounts, name, count) == siblingCounts

\* siblingCounts[name] = count
SetCount(siblingCounts, name, count) ==
    [n \in DOMAIN siblingCounts \cup {name} |->
        IF n = name THEN count ELSE siblingCounts[n]]

\* SegmentPath numbering the siblings from 0
SegmentPathZeroBased(path, name, count) ==
    IF path # ""
    THEN path \o "." \o name \o "[" \o ToString(count - 1) \o "]"
    ELSE name \o "[" \o ToString(count - 1) \o "]"

\* path ? `${path}.${name}[${count}]` : `${name}[${count}]`
SegmentPath(path, name, count) ==
    IF path # ""
    THEN path \o "." \o name \o "[" \o ToString(count) \o "]"
    ELSE name \o "[" \o ToString(count) \o "]"

RECURSIVE TextsOf(_)
\* textNodes.map(n => n.text || "")
TextsOf(ns) ==
    IF ns = <<>> THEN <<>>
    ELSE <<IF "text" \in DOMAIN Head(ns) THEN Head(ns).text ELSE "">> \o TextsOf(Tail(ns))

\* textNodes.map(...).join("").trim()
TextValue(el) == Trim(JoinAll(TextsOf(SeqFilterText(el.elements))))

RECURSIVE BuildFrom(_, _, _)
\* the forEach of buildEditableTree with its siblingCounts record
BuildFrom(elements, path, siblingCounts) ==
    IF elements = <<>> THEN <<>>
    ELSE LET el == Head(elements) IN
         IF el.type # "element"
         THEN BuildFrom(Tail(elements), path, siblingCounts)
         ELSE LET name == IF el.name # "" THEN el.name ELSE "unnamed"
                  count == CountOf(siblingCounts, name) + 1
                  currentPath == SegmentPath(path, name, count)
                  children == BuildFrom(SeqFilterEl(el.elements), currentPath, <<>>)
              IN <<Node(currentPath, name, TextValue(el), el.attributes, children)>>
                 \o BuildFrom(Tail(elements), path, SetCount(siblingCounts, name, count))

buildEditableTree(elements) == BuildFrom(elements, "", <<>>)

\* ------------------------------------------------------------------------
\* XmlEditor helpers
\* ------------------------------------------------------------------------
RECURSIVE RegenFrom(_, _, _)
\* nodes.map of regenerateIds with the siblingCounts record it is given
RegenFrom(nodes, parentPath, siblingCounts) ==
    IF nodes = <<>> THEN <<>>
    ELSE LET node == Head(nodes)
             count == CountOf(siblingCounts, node.name) + 1
             currentPath == SegmentPath(parentPath, node.name, count)
         IN <<[node EXCEPT !.id = currentPath, !.path = currentPath,
                           !.children = RegenFrom(node.children, currentPath, <<>>)]>>
            \o RegenFrom(Tail(nodes), parentPath, SetCount(siblingCounts, node.name, count))

regenerateIds(nodes, parentPath) == RegenFrom(nodes, parentPath, <<>>)

RECURSIVE Flatten(_)
\* the nodes of a forest in document (pre-)order
Flatten(nodes) ==
    IF nodes = <<>> THEN <<>>
    ELSE <<Head(nodes)>> \o Flatten(Head(nodes).children) \o Flatten(Tail(nodes))

\* A JavaScript value that may be null: <<>> is null, <<v>> is the value v.
None == <<>>
Some(v) == <<v>>

\* findNodeById: the first node in document order with that id, or null
findNodeById(nodes, id) ==
    LET flat == Flatten(nodes)
        hits == {i \in 1..Len(flat) : flat[i].id = id}
    IN IF hits = {} THEN None
       ELSE Some(flat[CHOOSE i \in hits : \A j \in hits : i <= j])

RECURSIVE findParentNodes(_, _, _)
\* the list of ancestors of the first node with targetId, or null
findParentNodes(nodes, targetId, parentList) ==
    IF nodes = <<>> THEN None
    ELSE LET node == Head(nodes) IN
         IF node.id = targetId THEN Some(parentList)
         ELSE LET found == findParentNodes(node.children, targetId,
                                           Append(parentList, node))
              IN IF found # None THEN found
                 ELSE findParentNodes(Tail(nodes), targetId, parentList)

RECURSIVE DigitsStart(_)
\* index of the first character of the trailing run of digits (Len+1 if none)
DigitsStart(name) ==
    IF Len(name) > 0 /\ IsDigit(SubSeq(name, Len(name), Len(name)))
    THEN LET k == DigitsStart(SubSeq(name, 1, Len(name) - 1)) IN k
    ELSE Len(name) + 1

\* name.match(/^(.*?)(\d+)?$/)[1]
BaseName(name) == SubSeq(name, 1, DigitsStart(name) - 1)

DigitValue(c) ==
    CASE c = "0" -> 0 [] c = "1" -> 1 [] c = "2" -> 2 [] c = "3" -> 3 [] c = "4" -> 4
      [] c = "5" -> 5 [] c = "6" -> 6 [] c = "7" -> 7 [] c = "8" -> 8 [] c = "9" -> 9

RECURSIVE ParseInt(_)
\* parseInt(digits, 10)
ParseInt(digits) ==
    IF Len(digits) = 0 THEN 0
    ELSE 10 * ParseInt(SubSeq(digits, 1, Len(digits) - 1))
         + DigitValue(SubSeq(digits, Len(digits), Len(digits)))

\* m = name.match(/^(.*?)(\d+)$/); m ? parseInt(m[2], 10) : 0
TrailingNumber(name) == ParseInt(SubSeq(name, DigitsStart(name), Len(name)))

RECURSIVE MaxNumber(_, _)
\* Math.max(0, ...numbers) over the siblings whose base name is baseName
MaxNumber(siblings, baseName) ==
    IF siblings = <<>> THEN 0
    ELSE LET rest == MaxNumber(Tail(siblings), baseName)
             n == IF BaseName(Head(siblings).name) = baseName
                  THEN TrailingNumber(Head(siblings).name) ELSE 0
         IN IF n > rest THEN n ELSE rest

\* DuplicateName counting on from the source's own number
DuplicateNameFromSource(sourceName, siblings) ==
    BaseName(sourceName) \o ToString(TrailingNumber(sourceName) + 1)

\* `${baseName}${nextNum}`
DuplicateName(sourceName, siblings) ==
    BaseName(sourceName) \o ToString(MaxNumber(siblings, BaseName(sourceName)) + 1)

RECURSIVE UpdateValue(_, _, _)
\* update() of updateNodeValue
UpdateValue(nodes, id, value) ==
    IF nodes = <<>> THEN <<>>
    ELSE LET node == Head(nodes) IN
         <<IF node.id = id THEN [node EXCEPT !.value = value]
           ELSE [node EXCEPT !.children = UpdateValue(node.children, id, value)]>>
         \o UpdateValue(Tail(nodes), id, value)

RECURSIVE AttrIndex(_, _)
\* position of key in an attribute list, 0 if absent
AttrIndex(attrs, key) ==
    IF attrs = <<>> THEN 0
    ELSE IF attrs[Len(attrs)].key = key /\ AttrIndex(SubSeq(attrs, 1, Len(attrs) - 1), key) = 0
         THEN Len(attrs)
         ELSE AttrIndex(SubSeq(attrs, 1, Len(attrs) - 1), key)

\* newAttrs[attrName] = attrValue
AttrSet(attrs, key, value) ==
    IF AttrIndex(attrs, key) = 0 THEN Append(attrs, Attr(key, value))
    ELSE [attrs EXCEPT ![AttrIndex(attrs, key)].value = value]

\* delete newAttrs[attrName]
AttrDelete(attrs, key) ==
    LET i == AttrIndex(attrs, key)
    IN IF i = 0 THEN attrs
       ELSE SubSeq(attrs, 1, i - 1) \o SubSeq(attrs, i + 1, Len(attrs))

RECURSIVE UpdateAttribute(_, _, _, _)
\* update() of updateNodeAttribute
UpdateAttribute(nodes, id, attrName, attrValue) ==
    IF nodes = <<>> THEN <<>>
    ELSE LET node == Head(nodes) IN
         <<IF node.id = id
           THEN [node EXCEPT !.attributes =
                    IF Trim(attrValue) # "" THEN AttrSet(node.attributes, attrName, attrValue)
                    ELSE AttrDelete(node.attributes, attrName)]
           ELSE [node EXCEPT !.children =
                    UpdateAttribute(node.children, id, attrName, attrValue)]>>
         \o UpdateAttribute(Tail(nodes), id, attrName, attrValue)

RECURSIVE Remove(_, _)
\* remove() of deleteNode
Remove(nodes, id) ==
    IF nodes = <<>> THEN <<>>
    ELSE LET node == Head(nodes) IN
         (IF node.id = id THEN <<>>
          ELSE <<[node EXCEPT !.children = Remove(node.children, id)]>>)
         \o Remove(Tail(nodes), id)

RECURSIVE DuplicateUnder(_, _, _)
\* update() of duplicatePath: append the renamed clone to the parent's children
DuplicateUnder(nodes, parentId, sourceNode) ==
    IF nodes = <<>> THEN <<>>
    ELSE LET node == Head(nodes) IN
         <<IF node.id = parentId
           THEN LET duplicated ==
                      [sourceNode EXCEPT !.name = DuplicateName(sourceNode.name, node.children)]
                    newChildren == Append(node.children, duplicated)
                IN [node EXCEPT !.children = regenerateIds(newChildren, node.path)]
           ELSE [node EXCEPT !.children = DuplicateUnder(node.children, parentId, sourceNode)]>>
         \o DuplicateUnder(Tail(nodes), parentId, sourceNode)

\* renderNode returns null for an empty leaf: it has no inputs and no buttons
Rendered(node) == ~(Trim(node.value) = "" /\ node.children = <<>>)

\* the nodes the tree view offers for editing
RenderedIds(nodes) ==
    LET flat == Flatten(nodes)
    IN {flat[i].id : i \in {j \in 1..Len(flat) : Rendered(flat[j])}}

\* ------------------------------------------------------------------------
\* utils/xmlTree: lookup by parameter path
\* ------------------------------------------------------------------------
RECURSIVE ReplaceSlashes(_)
\* .replace(/\//g, ".")
ReplaceSlashes(str) ==
    IF str = "" THEN ""
    ELSE (IF SubSeq(str, 1, 1) = "/" THEN "." ELSE SubSeq(str, 1, 1))
         \o ReplaceSlashes(SubSeq(str, 2, Len(str)))

RECURSIVE CollapseDots(_)
\* .replace(/\.+/g, ".")
CollapseDots(str) ==
    IF Len(str) < 2 THEN str
    ELSE IF SubSeq(str, 1, 1) = "." /\ SubSeq(str, 2, 2) = "."
         THEN CollapseDots(SubSeq(str, 2, Len(str)))
         ELSE SubSeq(str, 1, 1) \o CollapseDots(SubSeq(str, 2, Len(str)))

\* pathStr.trim().replace(/\//g, ".").replace(/\.+/g, ".")
Normalized(pathStr) == CollapseDots(ReplaceSlashes(Trim(pathStr)))

RECURSIVE SplitDots(_, _)
\* str.split("."), current being the piece read so far
SplitDots(str, current) ==
    IF str = "" THEN <<current>>
    ELSE IF SubSeq(str, 1, 1) = "."
         THEN <<current>> \o SplitDots(SubSeq(str, 2, Len(str)), "")
         ELSE SplitDots(SubSeq(str, 2, Len(str)), current \o SubSeq(str, 1, 1))

RECURSIVE NonEmpty(_)
\* .filter(Boolean) on strings
NonEmpty(pieces) ==
    IF pieces = <<>> THEN <<>>
    ELSE (IF Head(pieces) = "" THEN <<>> ELSE <<Head(pieces)>>) \o NonEmpty(Tail(pieces))

\* normalized.split(".").filter(Boolean)
Segments(pathStr) == NonEmpty(SplitDots(Normalized(pathStr), ""))

RECURSIVE LastOpen(_)
\* position of the last "[" of a string, 0 if it has none
LastOpen(str) ==
    IF str = "" THEN 0
    ELSE IF SubSeq(str, Len(str), Len(str)) = "[" THEN Len(str)
         ELSE LastOpen(SubSeq(str, 1, Len(str) - 1))

AllDigits(str) == \A i \in 1..Len(str) : IsDigit(SubSeq(str, i, i))

\* segment.trim().match(/^(.+?)(?:\[(\d+)\])?$/): the name, and the index
\* when the segment ends with [digits] after a non-empty name
parsePathSegment(segment) ==
    LET t == Trim(segment)
        open == LastOpen(t)
    IN IF /\ open > 1
          /\ Len(t) > open + 1
          /\ SubSeq(t, Len(t), Len(t)) = "]"
          /\ AllDigits(SubSeq(t, open + 1, Len(t) - 1))
       THEN [name |-> SubSeq(t, 1, open - 1),
             index |-> Some(ParseInt(SubSeq(t, open + 1, Len(t) - 1)))]
       ELSE [name |-> t, index |-> None]

RECURSIVE SameName(_, _)
\* nodes.filter(n => n.name === name)
SameName(nodes, name) ==
    IF nodes = <<>> THEN <<>>
    ELSE (IF Head(nodes).name = name THEN <<Head(nodes)>> ELSE <<>>)
         \o SameName(Tail(nodes), name)

RECURSIVE walk(_, _, _)
\* walk(nodes, segmentIndex) over the segments, counted from 1 here
walk(nodes, segments, segmentIndex) ==
    IF segmentIndex > Len(segments) THEN None
    ELSE LET seg == parsePathSegment(segments[segmentIndex])
             sameName == SameName(nodes, seg.name)
         IN IF sameName = <<>> THEN None
            ELSE LET target ==
                        IF seg.index # None /\ seg.index[1] >= 1
                        THEN IF seg.index[1] <= Len(sameName)
                             THEN sameName[seg.index[1]] ELSE sameName[1]
                        ELSE sameName[1]
                 IN IF segmentIndex = Len(segments) THEN Some(target)
                    ELSE walk(target.children, segments, segmentIndex + 1)

RECURSIVE findNodeByParameterPath(_, _)
RECURSIVE ExactIdLoop(_, _)
\* the for loop of findNodeByParameterPath: the node whose id is the trimmed
\* path string, or whatever the whole lookup finds among its children
ExactIdLoop(nodes, pathStr) ==
    IF nodes = <<>> THEN None
    ELSE IF Head(nodes).id = Trim(pathStr) THEN Some(Head(nodes))
    ELSE LET found == findNodeByParameterPath(Head(nodes).children, pathStr)
         IN IF found # None THEN found ELSE ExactIdLoop(Tail(nodes), pathStr)

\* findNodeByParameterPath(nodes, pathStr): the node, or null
findNodeByParameterPath(nodes, pathStr) ==
    IF Normalized(pathStr) = "" THEN None
    ELSE LET found == ExactIdLoop(nodes, pathStr)
         IN IF found # None THEN found
            ELSE IF Segments(pathStr) = <<>> THEN None
            ELSE walk(nodes, Segments(pathStr), 1)

\* setNodeValueByPath reporting success whatever the lookup gave
setNodeValueByPathAlwaysTrue(nodes, pathStr, value) ==
    LET node == findNodeByParameterPath(nodes, pathStr)
    IN IF node = None THEN [found |-> TRUE, nodes |-> nodes]
       ELSE [found |-> TRUE, nodes |-> UpdateValue(nodes, node[1].id, value)]

\* setNodeValueByPath(nodes, pathStr, value): what it returns and the tree it
\* leaves; the node found is the one node of a built tree with its id
setNodeValueByPath(nodes, pathStr, value) ==
    LET node == findNodeByParameterPath(nodes, pathStr)
    IN IF node = None THEN [found |-> FALSE, nodes |-> nodes]
       ELSE [found |-> TRUE, nodes |-> UpdateValue(nodes, node[1].id, value)]

\* ------------------------------------------------------------------------
\* XmlEditor: state and handlers
\* ------------------------------------------------------------------------
HistoryLimit == 50

EditValues == {"7", ""}
EditAttrValues == {"2", " "}

EdInit ==
    /\ xmlContent = ""
    /\ tree = <<>>
    /\ error = Null
    /\ history = <<>>
    /\ historyIndex = -1
    /\ canUndo = FALSE
    /\ canRedo = FALSE
    /\ thrown = FALSE
    /\ lastOp = "mount"
    /\ opCount = 0

\* saveToHistory without the limit on the history size
saveToHistoryNoLimit(newTree) ==
    LET newHistory == Append(SubSeq(history, 1, historyIndex + 1), newTree)
    IN /\ history' = newHistory
       /\ historyIndex' = Len(newHistory) - 1
       /\ canUndo' = (Len(newHistory) - 1 > 0)
       /\ canRedo' = FALSE

\* saveToHistory(newTree): the history, index and flags it leaves
saveToHistory(newTree) ==
    LET newHistory == Append(SubSeq(history, 1, historyIndex + 1), newTree)
        over == Len(newHistory) > HistoryLimit
        index == IF over THEN historyIndex ELSE Len(newHistory) - 1
    IN /\ history' = (IF over THEN Tail(newHistory) ELSE newHistory)
       /\ historyIndex' = index
       /\ canUndo' = (index > 0)
       /\ canRedo' = FALSE

Step(op) ==
    /\ opCount < MaxOps
    /\ opCount' = opCount + 1
    /\ lastOp' = op

\* setXmlContent(content) and the effect on [xmlContent]
LoadXml ==
    \E raw \in EditorDocs :
        /\ raw # xmlContent
        /\ Step("load")
        /\ xmlContent' = raw
        /\ thrown' = FALSE
        /\ IF Trim(raw) = ""
           THEN /\ tree' = <<>>
                /\ error' = Null
                /\ history' = <<>>
                /\ historyIndex' = -1
                /\ canUndo' = FALSE
                /\ canRedo' = FALSE
           ELSE LET parsed == Xml2js(raw) IN
                IF parsed.ok
                THEN /\ tree' = buildEditableTree(parsed.elements)
                     /\ error' = Null
                     /\ saveToHistory(buildEditableTree(parsed.elements))
                ELSE /\ error' = parsed.message
                     /\ tree' = <<>>
                     /\ UNCHANGED <<history, historyIndex, canUndo, canRedo>>

updateNodeValue ==
    \E i \in 1..Len(Flatten(tree)), value \in EditValues :
        LET newTree == UpdateValue(tree, Flatten(tree)[i].id, value) IN
        /\ Step("updateNodeValue")
        /\ tree' = newTree
        /\ saveToHistory(newTree)
        /\ thrown' = FALSE
        /\ UNCHANGED <<xmlContent, error>>

updateNodeAttribute ==
    \E i \in 1..Len(Flatten(tree)), attrValue \in EditAttrValues :
        LET node == Flatten(tree)[i] IN
        /\ Rendered(node)
        /\ \E k \in 1..Len(node.attributes) :
              LET newTree == UpdateAttribute(tree, node.id, node.attributes[k].key, attrValue) IN
              /\ Step("updateNodeAttribute")
              /\ tree' = newTree
              /\ saveToHistory(newTree)
              /\ thrown' = FALSE
              /\ UNCHANGED <<xmlContent, error>>

deleteNode ==
    \E id \in RenderedIds(tree) :
        LET newTree == Remove(tree, id) IN
        /\ Step("deleteNode")
        /\ tree' = newTree
        /\ saveToHistory(newTree)
        /\ thrown' = FALSE
        /\ UNCHANGED <<xmlContent, error>>

\* the tree duplicatePath(id) sets, or null when it returns early or throws
DuplicatedTree(nodes, id) ==
    LET sourceNode == findNodeById(nodes, id)
        parentList == findParentNodes(nodes, id, <<>>)
    IN IF sourceNode = None THEN None
       ELSE IF parentList = None
       THEN LET duplicated ==
                   [sourceNode[1] EXCEPT !.name = DuplicateName(sourceNode[1].name, nodes)]
            IN Some(regenerateIds(Append(nodes, duplicated), ""))
       ELSE IF parentList[1] = <<>>
       THEN None
       ELSE LET parent == parentList[1][Len(parentList[1])]
            IN Some(regenerateIds(DuplicateUnder(nodes, parent.id, sourceNode[1]), ""))

\* parent is undefined for a top-level node: reading parent.id throws
DuplicateThrows(nodes, id) ==
    /\ findNodeById(nodes, id) # None
    /\ findParentNodes(nodes, id, <<>>) = Some(<<>>)

duplicatePath ==
    \E id \in RenderedIds(tree) :
        /\ Step("duplicatePath")
        /\ thrown' = DuplicateThrows(tree, id)
        /\ IF DuplicatedTree(tree, id) = None
           THEN UNCHANGED <<tree, history, historyIndex, canUndo, canRedo>>
           ELSE /\ tree' = DuplicatedTree(tree, id)[1]
                /\ saveToHistory(DuplicatedTree(tree, id)[1])
        /\ UNCHANGED <<xmlContent, error>>

undo ==
    /\ canUndo
    /\ Step("undo")
    /\ thrown' = FALSE
    /\ IF historyIndex > 0
       THEN /\ historyIndex' = historyIndex - 1
            /\ tree' = history[historyIndex]
            /\ canUndo' = (historyIndex - 1 > 0)
            /\ canRedo' = TRUE
       ELSE UNCHANGED <<historyIndex, tree, canUndo, canRedo>>
    /\ UNCHANGED <<xmlContent, error, history>>

redo ==
    /\ canRedo
    /\ Step("redo")
    /\ thrown' = FALSE
    /\ IF historyIndex < Len(history) - 1
       THEN /\ historyIndex' = historyIndex + 1
            /\ tree' = history[historyIndex + 2]
            /\ canUndo' = TRUE
            /\ canRedo' = (historyIndex + 1 < Len(history) - 1)
       ELSE UNCHANGED <<historyIndex, tree, canUndo, canRedo>>
    /\ UNCHANGED <<xmlContent, error, history>>

EdNext ==
    \/ LoadXml
    \/ updateNodeValue
    \/ updateNodeAttribute
    \/ deleteNode
    \/ duplicatePath
    \/ undo
    \/ redo

\* the history after loading EdItems and setting the value of r[1] to "7"
\* and back to "" in turn, EditsBefore times in all
FilledHistory ==
    [i \in 1..(EditsBefore + 1) |->
        UpdateValue(buildEditableTree(Xml2js(EdItems).elements), "r[1]",
                    IF i % 2 = 1 THEN "" ELSE "7")]

\* the editor after that load and those edits; opCount counts the handlers
\* run from here on
EdFilled ==
    /\ xmlContent = EdItems
    /\ tree = FilledHistory[EditsBefore + 1]
    /\ error = Null
    /\ history = FilledHistory
    /\ historyIndex = EditsBefore
    /\ canUndo = TRUE
    /\ canRedo = FALSE
    /\ thrown = FALSE
    /\ lastOp = "updateNodeValue"
    /\ opCount = 0

\* ------------------------------------------------------------------------
\* Diff engine (workers/xmlDiffWorker): canonical paths, alignment,
\* classification and statistics
\* ------------------------------------------------------------------------
\* Name[k] under a prefix, no prefix at the top level
EnginePath(prefix, name, k) ==
    (IF prefix = "" THEN "" ELSE prefix \o ".") \o name \o "[" \o ToString(k) \o "]"

AttrPath(path, key) == path \o ".@" \o key

TextPath(path) == path \o ".#text"

Added(path, value) == [path |-> path, change |-> "added", rightValue |-> value]

Removed(path, value) == [path |-> path, change |-> "removed", leftValue |-> value]

Changed(path, l, r) ==
    [path |-> path, change |-> "changed", leftValue |-> l, rightValue |-> r]

RECURSIVE NamesInOrder(_, _)
\* the distinct names of a sibling list in order of first occurrence
NamesInOrder(siblings, acc) ==
    IF siblings = <<>> THEN acc
    ELSE IF \E i \in 1..Len(acc) : acc[i] = Head(siblings).name
         THEN NamesInOrder(Tail(siblings), acc)
         ELSE NamesInOrder(Tail(siblings), Append(acc, Head(siblings).name))

\* every sibling, whatever its name
NameGroupAll(siblings, name) == siblings

RECURSIVE NameGroup(_, _)
\* the siblings called name, in order
NameGroup(siblings, name) ==
    IF siblings = <<>> THEN <<>>
    ELSE IF Head(siblings).name = name
         THEN <<Head(siblings)>> \o NameGroup(Tail(siblings), name)
         ELSE NameGroup(Tail(siblings), name)

\* the value of the first attribute, whatever the key
AttrValueFirst(attrs, key) == attrs[1].value

AttrValue(attrs, key) == attrs[AttrIndex(attrs, key)].value

RECURSIVE LeftAttrRecords(_, _, _)
\* keys of the left element: removed when missing on the right, changed when
\* the values differ
LeftAttrRecords(la, ra, path) ==
    IF la = <<>> THEN <<>>
    ELSE LET a == Head(la) IN
         (IF AttrIndex(ra, a.key) = 0
          THEN <<Removed(AttrPath(path, a.key), a.value)>>
          ELSE IF AttrValue(ra, a.key) # a.value
          THEN <<Changed(AttrPath(path, a.key), a.value, AttrValue(ra, a.key))>>
          ELSE <<>>)
         \o LeftAttrRecords(Tail(la), ra, path)

RECURSIVE RightAttrRecordsEveryKey(_, _, _)
\* RightAttrRecords reporting every key of the right element as added
RightAttrRecordsEveryKey(la, ra, path) ==
    IF ra = <<>> THEN <<>>
    ELSE <<Added(AttrPath(path, Head(ra).key), Head(ra).value)>>
         \o RightAttrRecordsEveryKey(la, Tail(ra), path)

RECURSIVE RightAttrRecords(_, _, _)
\* keys present on the right only: added
RightAttrRecords(la, ra, path) ==
    IF ra = <<>> THEN <<>>
    ELSE LET a == Head(ra) IN
         (IF AttrIndex(la, a.key) = 0
          THEN <<Added(AttrPath(path, a.key), a.value)>>
          ELSE <<>>)
         \o RightAttrRecords(la, Tail(ra), path)

RECURSIVE OwnAttrRecords(_, _, _)
\* one record per attribute of an element present on one side only
OwnAttrRecords(attrs, path, kind) ==
    IF attrs = <<>> THEN <<>>
    ELSE <<IF kind = "added"
           THEN Added(AttrPath(path, Head(attrs).key), Head(attrs).value)
           ELSE Removed(AttrPath(path, Head(attrs).key), Head(attrs).value)>>
         \o OwnAttrRecords(Tail(attrs), path, kind)

\* OneSided with the record at the node's own path only
OneSidedBare(el, path, kind) ==
    <<IF kind = "added" THEN Added(path, "") ELSE Removed(path, "")>>

\* OneSided with a record for every child element as well
OneSidedDeep(el, path, kind) ==
    <<IF kind = "added" THEN Added(path, "") ELSE Removed(path, "")>>
    \o OwnAttrRecords(el.attributes, path, kind)
    \o (IF TextValue(el) = "" THEN <<>>
        ELSE <<IF kind = "added" THEN Added(TextPath(path), TextValue(el))
               ELSE Removed(TextPath(path), TextValue(el))>>)
    \o [j \in 1..Len(SeqFilterEl(el.elements)) |->
          LET kid == SeqFilterEl(el.elements)[j]
              at == EnginePath(path, kid.name, j)
          IN IF kind = "added" THEN Added(at, "") ELSE Removed(at, "")]

\* a node present on one side only: one record at its own path, one per
\* attribute, one for its text if it has any; nothing for its descendants
OneSided(el, path, kind) ==
    <<IF kind = "added" THEN Added(path, "") ELSE Removed(path, "")>>
    \o OwnAttrRecords(el.attributes, path, kind)
    \o (IF TextValue(el) = "" THEN <<>>
        ELSE <<IF kind = "added" THEN Added(TextPath(path), TextValue(el))
               ELSE Removed(TextPath(path), TextValue(el))>>)

RECURSIVE DiffSiblings(_, _, _)
RECURSIVE DiffGroups(_, _, _, _)
RECURSIVE DiffGroup(_, _, _, _, _)

\* a matched pair: text, attributes, then the children
DiffPair(l, r, path) ==
    (IF TextValue(l) # TextValue(r)
     THEN <<Changed(TextPath(path), TextValue(l), TextValue(r))>>
     ELSE <<>>)
    \o LeftAttrRecords(l.attributes, r.attributes, path)
    \o RightAttrRecords(l.attributes, r.attributes, path)
    \o DiffSiblings(SeqFilterEl(l.elements), SeqFilterEl(r.elements), path)

\* one name group: the i-th left occurrence against the i-th right occurrence
DiffGroup(lg, rg, name, i, prefix) ==
    IF i > Len(lg) /\ i > Len(rg) THEN <<>>
    ELSE (IF i <= Len(lg) /\ i <= Len(rg)
          THEN DiffPair(lg[i], rg[i], EnginePath(prefix, name, i))
          ELSE IF i <= Len(lg)
          THEN OneSided(lg[i], EnginePath(prefix, name, i), "removed")
          ELSE OneSided(rg[i], EnginePath(prefix, name, i), "added"))
         \o DiffGroup(lg, rg, name, i + 1, prefix)

DiffGroups(names, left, right, prefix) ==
    IF names = <<>> THEN <<>>
    ELSE DiffGroup(NameGroup(left, Head(names)), NameGroup(right, Head(names)),
                   Head(names), 1, prefix)
         \o DiffGroups(Tail(names), left, right, prefix)

\* align(leftSiblings, rightSiblings, pathPrefix) with the classification
DiffSiblings(left, right, prefix) ==
    DiffGroups(NamesInOrder(left \o right, <<>>), left, right, prefix)

\* the differences of two parsed documents
DiffDocuments(leftElements, rightElements) ==
    DiffSiblings(SeqFilterEl(leftElements), SeqFilterEl(rightElements), "")

RECURSIVE StatsOf(_)
\* one increment per emitted record
StatsOf(records) ==
    IF records = <<>> THEN [added |-> 0, removed |-> 0, changed |-> 0]
    ELSE LET rest == StatsOf(Tail(records))
             kind == Head(records).change
         IN [rest EXCEPT ![kind] = @ + 1]

\* ------------------------------------------------------------------------
\* XmlComparison: the documents compared
\* ------------------------------------------------------------------------
Undefined == "undefined"

sampleLeft ==
    "<device>\n  <name>Femto A</name>\n  <version>1.0.0</version>\n  <config>\n    <band>n78</band>\n    <power unit=\"dBm\">20</power>\n  </config>\n</device>"

sampleRight ==
    "<device>\n  <name>Femto A</name>\n  <version>1.1.0</version>\n  <config>\n    <band>n77</band>\n    <power unit=\"dBm\">23</power>\n    <sync enabled=\"true\" />\n  </config>\n</device>"

mismatchedTag == "<a><b></a>"

faultLeft ==
    "<Device><FaultMgmt><Alarm>n78</Alarm></FaultMgmt><Name>Femto A</Name><Old>x</Old></Device>"

faultRight ==
    "<Device><FaultMgmt><Alarm>n77</Alarm></FaultMgmt><Name>Femto B</Name><Band>N78</Band></Device>"

CompareDocs == {sampleLeft, sampleRight, mismatchedTag}

\* parse(raw): the canonical tree of a well-formed document, or a ParseError
Parse(raw) ==
    CASE raw = sampleLeft ->
           Ok(<<El("device", <<>>,
                   <<El("name", <<>>, <<Txt("Femto A")>>),
                     El("version", <<>>, <<Txt("1.0.0")>>),
                     El("config", <<>>,
                        <<El("band", <<>>, <<Txt("n78")>>),
                          El("power", <<Attr("unit", "dBm")>>, <<Txt("20")>>)>>)>>)>>)
      [] raw = sampleRight ->
           Ok(<<El("device", <<>>,
                   <<El("name", <<>>, <<Txt("Femto A")>>),
                     El("version", <<>>, <<Txt("1.1.0")>>),
                     El("config", <<>>,
                        <<El("band", <<>>, <<Txt("n77")>>),
                          El("power", <<Attr("unit", "dBm")>>, <<Txt("23")>>),
                          El("sync", <<Attr("enabled", "true")>>, <<>>)>>)>>)>>)
      [] raw = faultLeft ->
           Ok(<<El("Device", <<>>,
                   <<El("FaultMgmt", <<>>, <<El("Alarm", <<>>, <<Txt("n78")>>)>>),
                     El("Name", <<>>, <<Txt("Femto A")>>),
                     El("Old", <<>>, <<Txt("x")>>)>>)>>)
      [] raw = faultRight ->
           Ok(<<El("Device", <<>>,
                   <<El("FaultMgmt", <<>>, <<El("Alarm", <<>>, <<Txt("n77")>>)>>),
                     El("Name", <<>>, <<Txt("Femto B")>>),
                     El("Band", <<>>, <<Txt("N78")>>)>>)>>)
      [] OTHER -> Bad("mismatched tag")

\* ------------------------------------------------------------------------
\* The worker: one request at a time, three phases cut into chunks
\* ------------------------------------------------------------------------
NoStats == [added |-> 0, removed |-> 0, changed |-> 0]

EngineIdle ==
    [phase |-> "Idle", req |-> 0, leftXml |-> "", rightXml |-> "",
     leftResult |-> None, rightResult |-> None, chunk |-> 0, chunks |-> 1,
     fault |-> FALSE]

PhaseName(phase) ==
    CASE phase = "ParsingLeft" -> "left"
      [] phase = "ParsingRight" -> "right"
      [] OTHER -> "diff"

Working == eng.phase \in {"ParsingLeft", "ParsingRight", "Diffing"}

ProgressMessage(req, phase, chunk, chunks) ==
    [ok |-> TRUE, type |-> "progress", req |-> req, phase |-> PhaseName(phase),
     percent |-> (100 * chunk) \div chunks, message |-> PhaseName(phase)]

\* the canonical trees of the well-formed documents
CanonicalTrees == {Parse(raw).elements : raw \in {d \in CompareDocs : Parse(d).ok}}

\* the outcome of the diff phase for every pair of canonical trees
DiffOutcome ==
    [l \in CanonicalTrees, r \in CanonicalTrees |->
        [differences |-> DiffDocuments(l, r), stats |-> StatsOf(DiffDocuments(l, r))]]

DoneMessage(req, outcome) ==
    [ok |-> TRUE, type |-> "done", req |-> req,
     differences |-> outcome.differences, stats |-> outcome.stats]

\* leftError / rightError are present exactly for the sides whose parse failed
ErrorOf(result) ==
    IF result # None /\ ~result[1].ok THEN result[1].message ELSE Undefined

ErrorMessage(req, leftResult, rightResult) ==
    [ok |-> FALSE, type |-> "error", req |-> req,
     leftError |-> ErrorOf(leftResult), rightError |-> ErrorOf(rightResult)]

\* the worker takes up the next request
EngineAccept ==
    /\ ~Working
    /\ inbox # <<>>
    /\ \E n \in 1..MaxChunks :
          eng' = [phase |-> "ParsingLeft", req |-> Head(inbox).req,
                  leftXml |-> Head(inbox).leftXml, rightXml |-> Head(inbox).rightXml,
                  leftResult |-> None, rightResult |-> None,
                  chunk |-> 0, chunks |-> n, fault |-> FALSE]
    /\ inbox' = Tail(inbox)
    /\ UNCHANGED <<outbox, hostVars, reqCount, seen>>

\* one bounded unit of work, then a progress message
EngineChunk ==
    /\ Working
    /\ eng.chunk < eng.chunks
    /\ eng' = [eng EXCEPT !.chunk = @ + 1]
    /\ outbox' = Append(outbox,
                        ProgressMessage(eng.req, eng.phase, eng.chunk + 1, eng.chunks))
    /\ UNCHANGED <<inbox, hostVars, reqCount, seen>>

\* a parsing phase ends when its chunks are done, or earlier on a
\* well-formedness violation
ParsePhaseOver(raw) == eng.chunk = eng.chunks \/ ~Parse(raw).ok

EngineLeftParsed ==
    /\ eng.phase = "ParsingLeft"
    /\ ParsePhaseOver(eng.leftXml)
    /\ \E n \in 1..MaxChunks :
          eng' = [eng EXCEPT !.phase = "ParsingRight",
                             !.leftResult = Some(Parse(eng.leftXml)),
                             !.chunk = 0, !.chunks = n]
    /\ UNCHANGED <<inbox, outbox, hostVars, reqCount, seen>>

EngineRightParsed ==
    /\ eng.phase = "ParsingRight"
    /\ ParsePhaseOver(eng.rightXml)
    /\ LET rightResult == Some(Parse(eng.rightXml)) IN
       IF eng.leftResult[1].ok /\ rightResult[1].ok
       THEN /\ \E n \in 1..MaxChunks :
                  eng' = [eng EXCEPT !.phase = "Diffing", !.rightResult = rightResult,
                                     !.chunk = 0, !.chunks = n]
            /\ UNCHANGED outbox
       ELSE /\ eng' = [eng EXCEPT !.phase = "Failed", !.rightResult = rightResult]
            /\ outbox' = Append(outbox, ErrorMessage(eng.req, eng.leftResult, rightResult))
    /\ UNCHANGED <<inbox, hostVars, reqCount, seen>>

EngineDiffed ==
    /\ eng.phase = "Diffing"
    /\ eng.chunk = eng.chunks
    /\ eng' = [eng EXCEPT !.phase = "Done"]
    /\ outbox' = Append(outbox,
                        DoneMessage(eng.req, DiffOutcome[eng.leftResult[1].elements,
                                                         eng.rightResult[1].elements]))
    /\ UNCHANGED <<inbox, hostVars, reqCount, seen>>

\* an internal fault ends the request with an error message
EngineFault ==
    /\ Working
    /\ eng' = [eng EXCEPT !.phase = "Failed", !.fault = TRUE]
    /\ outbox' = Append(outbox, ErrorMessage(eng.req, eng.leftResult, eng.rightResult))
    /\ UNCHANGED <<inbox, hostVars, reqCount, seen>>

\* an error escapes the worker's message handler: the request is dropped and
\* the worker object raises an error event
EngineUncaught ==
    /\ Working
    /\ eng' = [eng EXCEPT !.phase = "Failed", !.fault = TRUE]
    /\ outbox' = Append(outbox, [ok |-> FALSE, type |-> "uncaught", req |-> eng.req,
                                 message |-> "fault"])
    /\ UNCHANGED <<inbox, hostVars, reqCount, seen>>

\* ------------------------------------------------------------------------
\* XmlComparison: state and handlers
\* ------------------------------------------------------------------------
Host ==
    [isComparing |-> isComparing, leftError |-> leftError, rightError |-> rightError,
     differences |-> differences, stats |-> stats, progress |-> progress,
     lastRun |-> lastRun, listeners |-> listeners]

SetHost(h) ==
    /\ isComparing' = h.isComparing
    /\ leftError' = h.leftError
    /\ rightError' = h.rightError
    /\ differences' = h.differences
    /\ stats' = h.stats
    /\ progress' = h.progress
    /\ lastRun' = h.lastRun
    /\ listeners' = h.listeners

RECURSIVE Without(_, _)
\* worker.removeEventListener("message", onMessage)
Without(ls, self) ==
    IF ls = <<>> THEN <<>>
    ELSE IF Head(ls) = self THEN Tail(ls)
    ELSE <<Head(ls)>> \o Without(Tail(ls), self)

\* onMessage taking every message that is not a progress message for the result
onMessageAnyResult(h, data, self) ==
    IF data.ok /\ data.type = "progress"
    THEN [h EXCEPT !.progress = Some([percent |-> data.percent,
                                      message |-> data.message,
                                      phase |-> data.phase])]
    ELSE [h EXCEPT !.differences = IF data.type = "done" THEN data.differences ELSE <<>>,
                   !.stats = IF data.type = "done" THEN data.stats ELSE NoStats,
                   !.lastRun = Some(self),
                   !.isComparing = FALSE,
                   !.progress = None,
                   !.listeners = Without(h.listeners, self)]

\* onMessage leaving its listener registered after the result
onMessageKeepsListener(h, data, self) ==
    IF data.ok /\ data.type = "progress"
    THEN [h EXCEPT !.progress = Some([percent |-> data.percent,
                                      message |-> data.message,
                                      phase |-> data.phase])]
    ELSE IF ~data.ok /\ data.type = "error"
    THEN [h EXCEPT !.leftError = data.leftError,
                   !.rightError = data.rightError,
                   !.differences = <<>>,
                   !.stats = NoStats,
                   !.isComparing = FALSE,
                   !.progress = None,
                   !.listeners = Without(h.listeners, self)]
    ELSE IF data.ok /\ data.type = "done"
    THEN [h EXCEPT !.differences = data.differences,
                   !.stats = data.stats,
                   !.lastRun = Some(self),
                   !.isComparing = FALSE,
                   !.progress = None]
    ELSE h

\* onMessage storing the left error for both sides
onMessageOneError(h, data, self) ==
    IF data.ok /\ data.type = "progress"
    THEN [h EXCEPT !.progress = Some([percent |-> data.percent,
                                      message |-> data.message,
                                      phase |-> data.phase])]
    ELSE IF ~data.ok /\ data.type = "error"
    THEN [h EXCEPT !.leftError = data.leftError,
                   !.rightError = data.leftError,
                   !.differences = <<>>,
                   !.stats = NoStats,
                   !.isComparing = FALSE,
                   !.progress = None,
                   !.listeners = Without(h.listeners, self)]
    ELSE IF data.ok /\ data.type = "done"
    THEN [h EXCEPT !.differences = data.differences,
                   !.stats = data.stats,
                   !.lastRun = Some(self),
                   !.isComparing = FALSE,
                   !.progress = None,
                   !.listeners = Without(h.listeners, self)]
    ELSE h

\* onMessage dropping the phase of a progress message
onMessageNoPhase(h, data, self) ==
    IF data.ok /\ data.type = "progress"
    THEN [h EXCEPT !.progress = Some([percent |-> data.percent,
                                      message |-> data.message,
                                      phase |-> Undefined])]
    ELSE IF ~data.ok /\ data.type = "error"
    THEN [h EXCEPT !.leftError = data.leftError,
                   !.rightError = data.rightError,
                   !.differences = <<>>,
                   !.stats = NoStats,
                   !.isComparing = FALSE,
                   !.progress = None,
                   !.listeners = Without(h.listeners, self)]
    ELSE IF data.ok /\ data.type = "done"
    THEN [h EXCEPT !.differences = data.differences,
                   !.stats = data.stats,
                   !.lastRun = Some(self),
                   !.isComparing = FALSE,
                   !.progress = None,
                   !.listeners = Without(h.listeners, self)]
    ELSE h

\* the onMessage closure of the request self, run on the host state h
onMessage(h, data, self) ==
    IF data.ok /\ data.type = "progress"
    THEN [h EXCEPT !.progress = Some([percent |-> data.percent,
                                      message |-> data.message,
                                      phase |-> data.phase])]
    ELSE IF ~data.ok /\ data.type = "error"
    THEN [h EXCEPT !.leftError = data.leftError,
                   !.rightError = data.rightError,
                   !.differences = <<>>,
                   !.stats = NoStats,
                   !.isComparing = FALSE,
                   !.progress = None,
                   !.listeners = Without(h.listeners, self)]
    ELSE IF data.ok /\ data.type = "done"
    THEN [h EXCEPT !.differences = data.differences,
                   !.stats = data.stats,
                   !.lastRun = Some(self),
                   !.isComparing = FALSE,
                   !.progress = None,
                   !.listeners = Without(h.listeners, self)]
    ELSE h

\* onError leaving the differences of the previous run in place
onErrorKeepsDifferences(h, err, self) ==
    [h EXCEPT !.isComparing = FALSE,
              !.leftError = "Worker error: " \o err.message,
              !.stats = NoStats,
              !.progress = None,
              !.listeners = Without(h.listeners, self)]

\* the onError closure of the request self, run on the host state h
onError(h, err, self) ==
    [h EXCEPT !.isComparing = FALSE,
              !.leftError = "Worker error: " \o err.message,
              !.differences = <<>>,
              !.stats = NoStats,
              !.progress = None,
              !.listeners = Without(h.listeners, self)]

RECURSIVE Dispatch(_, _, _)
\* a message event runs every onMessage registered when it is dispatched, an
\* error event every onError
Dispatch(h, data, ls) ==
    IF ls = <<>> THEN h
    ELSE IF data.type = "uncaught"
    THEN Dispatch(onError(h, data, Head(ls)), data, Tail(ls))
    ELSE Dispatch(onMessage(h, data, Head(ls)), data, Tail(ls))

CmpInit ==
    /\ leftXml = sampleLeft
    /\ rightXml = sampleRight
    /\ isComparing = FALSE
    /\ leftError = Undefined
    /\ rightError = Undefined
    /\ differences = <<>>
    /\ stats = NoStats
    /\ progress = None
    /\ lastRun = None
    /\ listeners = <<>>
    /\ inbox = <<>>
    /\ eng = EngineIdle
    /\ outbox = <<>>
    /\ reqCount = 0
    /\ seen = <<>>
    /\ filter = ""
    /\ changeFilter = [added |-> TRUE, removed |-> TRUE, changed |-> TRUE]
    /\ excludedQuickFilters = {}

\* handleCompare behind a button that is never disabled
handleCompareAnyTime ==
    /\ reqCount < MaxRequests
    /\ reqCount' = reqCount + 1
    /\ isComparing' = TRUE
    /\ leftError' = Undefined
    /\ rightError' = Undefined
    /\ progress' = Some([percent |-> 0, message |-> "Starting", phase |-> Undefined])
    /\ listeners' = Append(listeners, reqCount + 1)
    /\ inbox' = Append(inbox, [req |-> reqCount + 1, leftXml |-> leftXml,
                               rightXml |-> rightXml])
    /\ seen' = Append(seen, [terminals |-> 0, late |-> FALSE])
    /\ UNCHANGED <<leftXml, rightXml, differences, stats, lastRun, eng, outbox>>

\* the Compare button (disabled while isComparing)
handleCompare ==
    /\ ~isComparing
    /\ reqCount < MaxRequests
    /\ reqCount' = reqCount + 1
    /\ isComparing' = TRUE
    /\ leftError' = Undefined
    /\ rightError' = Undefined
    /\ progress' = Some([percent |-> 0, message |-> "Starting", phase |-> Undefined])
    /\ listeners' = Append(listeners, reqCount + 1)
    /\ inbox' = Append(inbox, [req |-> reqCount + 1, leftXml |-> leftXml,
                               rightXml |-> rightXml])
    /\ seen' = Append(seen, [terminals |-> 0, late |-> FALSE])
    /\ UNCHANGED <<leftXml, rightXml, differences, stats, lastRun, eng, outbox>>

\* the effect on [leftXml, rightXml]
InputChanged ==
    /\ leftError' = Undefined
    /\ rightError' = Undefined
    /\ differences' = <<>>
    /\ stats' = NoStats
    /\ lastRun' = None
    /\ UNCHANGED <<isComparing, progress, listeners, workerVars, reqCount, seen>>

setLeftXml ==
    \E raw \in CompareDocs :
        /\ raw # leftXml
        /\ leftXml' = raw
        /\ UNCHANGED rightXml
        /\ InputChanged

setRightXml ==
    \E raw \in CompareDocs :
        /\ raw # rightXml
        /\ rightXml' = raw
        /\ UNCHANGED leftXml
        /\ InputChanged

\* the message event at the head of the worker's output reaches the host
HostReceive ==
    /\ outbox # <<>>
    /\ LET data == Head(outbox)
           handlers == Len(listeners)
           was == seen[data.req]
       IN /\ SetHost(Dispatch(Host, data, listeners))
          /\ seen' = [seen EXCEPT ![data.req] =
                [terminals |-> IF data.type \in {"done", "error"}
                               THEN was.terminals + handlers
                               ELSE was.terminals,
                 late |-> was.late \/ (was.terminals > 0 /\ handlers > 0)]]
    /\ outbox' = Tail(outbox)
    /\ UNCHANGED <<leftXml, rightXml, inbox, eng, reqCount>>

EngineStep ==
    \/ EngineAccept
    \/ EngineChunk
    \/ EngineLeftParsed
    \/ EngineRightParsed
    \/ EngineDiffed

CmpNext ==
    \/ handleCompare
    \/ setLeftXml
    \/ setRightXml
    \/ HostReceive
    \/ EngineStep
    \/ EngineFault

\* ------------------------------------------------------------------------
\* XmlComparison: the differences view (search, change kinds, quick filters)
\* ------------------------------------------------------------------------
ChangeKinds == {"added", "removed", "changed"}

QuickFilterKeys == {"FaultMgmt", "NeighborList", "NeighborListInUse"}

quickFilterPatterns ==
    [k \in QuickFilterKeys |->
        CASE k = "FaultMgmt" -> "Device[1].FaultMgmt[1]"
          [] k = "NeighborList" ->
               "Device[1].Services[1].FAPService[1].i1[1].CellConfig[1].LTE[1].RAN[1].NeighborList"
          [] OTHER ->
               "Device[1].Services[1].FAPService[1].i1[1].CellConfig[1].LTE[1].RAN[1].NeighborListInUse"]

\* String(d.path || d.fullPath || "")
PathOf(d) ==
    IF "path" \in DOMAIN d /\ d.path # "" THEN d.path
    ELSE IF "fullPath" \in DOMAIN d /\ d.fullPath # "" THEN d.fullPath
    ELSE ""

\* String(d[field] ?? "")
FieldOrEmpty(d, field) == IF field \in DOMAIN d THEN d[field] ELSE ""

\* the predicate of the full-text / path search
SearchKeeps(d, q) ==
    \/ includes(toLowerCase(PathOf(d)), q)
    \/ includes(toLowerCase(FieldOrEmpty(d, "left")), q)
    \/ includes(toLowerCase(FieldOrEmpty(d, "right")), q)

\* the predicate of the quick filter exclusions
QuickKeeps(d, excluded) ==
    \A k \in excluded :
        LET path == toLowerCase(PathOf(d))
            patLower == toLowerCase(quickFilterPatterns[k])
        IN ~(\/ includes(path, patLower \o "[")
             \/ endsWith(path, patLower)
             \/ includes(path, patLower \o "."))

\* the useMemo on [differences, filter, changeFilter, excludedQuickFilters]
filteredDiffs ==
    LET q == toLowerCase(Trim(filter))
        byKind == SelectSeq(differences, LAMBDA d : changeFilter[d.change])
        bySearch == IF q # "" THEN SelectSeq(byKind, LAMBDA d : SearchKeeps(d, q))
                    ELSE byKind
    IN IF excludedQuickFilters # {}
       THEN SelectSeq(bySearch, LAMBDA d : QuickKeeps(d, excludedQuickFilters))
       ELSE bySearch

\* texts typed into the search box
Queries == {"", " FEMTO ", "n78", "fault", "zz"}

\* onChange of the search box
setFilter ==
    \E text \in Queries :
        /\ text # filter
        /\ filter' = text
        /\ UNCHANGED <<changeFilter, excludedQuickFilters>>

\* the "Added only" button
addedOnly ==
    /\ changeFilter' = [added |-> TRUE, removed |-> FALSE, changed |-> FALSE]
    /\ changeFilter' # changeFilter
    /\ UNCHANGED <<filter, excludedQuickFilters>>

\* the three change kind toggles (at least one stays on)
toggleChangeKind ==
    \E k \in ChangeKinds :
        LET next == [changeFilter EXCEPT ![k] = ~@]
        IN /\ next.added \/ next.removed \/ next.changed
           /\ changeFilter' = next
           /\ UNCHANGED <<filter, excludedQuickFilters>>

\* the three quick filter buttons
toggleQuickFilter ==
    \E k \in QuickFilterKeys :
        /\ excludedQuickFilters' =
              IF k \in excludedQuickFilters THEN excludedQuickFilters \ {k}
              ELSE excludedQuickFilters \cup {k}
        /\ UNCHANGED <<filter, changeFilter>>

\* documents pasted into the two inputs of the view
ViewDocs == {sampleLeft, sampleRight, faultLeft, faultRight}

\* the host once the comparison of two well-formed documents is done
Compared ==
    \E l \in ViewDocs, r \in ViewDocs :
        LET records == DiffDocuments(Parse(l).elements, Parse(r).elements)
        IN /\ leftXml = l
           /\ rightXml = r
           /\ isComparing = FALSE
           /\ leftError = Undefined
           /\ rightError = Undefined
           /\ differences = records
           /\ stats = StatsOf(records)
           /\ progress = None
           /\ lastRun = Some(1)
           /\ listeners = <<>>
           /\ inbox = <<>>
           /\ eng = EngineIdle
           /\ outbox = <<>>
           /\ reqCount = 1
           /\ seen = <<[terminals |-> 1, late |-> FALSE]>>
           /\ filter = ""
           /\ changeFilter = [added |-> TRUE, removed |-> TRUE, changed |-> TRUE]
           /\ excludedQuickFilters = {}

ViewActions ==
    \/ setFilter
    \/ addedOnly
    \/ toggleChangeKind
    \/ toggleQuickFilter

\* ------------------------------------------------------------------------
\* The engine run on its own: every pair of documents of a bounded family
\* ------------------------------------------------------------------------
\* children a document of the family is assembled from
DiffKids ==
    { El("a", <<>>, <<Txt("1")>>),
      El("a", <<>>, <<Txt(" 2 ")>>),
      El("b", <<Attr("x", "1")>>, <<Txt(" ")>>),
      El("b", <<Attr("x", "2"), Attr("y", "1")>>, <<Txt("t")>>),
      El("b", <<>>, <<El("c", <<>>, <<Txt("3")>>)>>),
      El("b", <<>>, <<El("c", <<>>, <<Txt("3")>>),
                      El("c", <<Attr("z", "1")>>, <<Txt("4")>>)>>) }

KidSeqs == UNION {[1..n -> DiffKids] : n \in 0..MaxKids}

\* <a x="1"/> and <a x="2"/>
AttrChangeLeft == <<El("a", <<Attr("x", "1")>>, <<>>)>>

AttrChangeRight == <<El("a", <<Attr("x", "2")>>, <<>>)>>

\* the documents: one root element r with up to MaxKids children, and the
\* two one-element documents above
DiffDocs ==
    {<<El("r", <<>>, kids)>> : kids \in KidSeqs} \cup {AttrChangeLeft, AttrChangeRight}

DiffInputs ==
    /\ dLeft \in DiffDocs
    /\ dRight \in DiffDocs
    /\ dResult = None

RunDiff ==
    /\ dResult = None
    /\ dResult' = Some([differences |-> DiffDocuments(dLeft, dRight),
                        stats |-> StatsOf(DiffDocuments(dLeft, dRight))])
    /\ UNCHANGED <<dLeft, dRight>>

\* ------------------------------------------------------------------------
\* utils/xmlTree used on its own: documents and path strings of a bounded
\* family
\* ------------------------------------------------------------------------
\* a text node without text
NoText == [type |-> "text"]

\* children a document of the family is assembled from
TreeParts ==
    { Txt(" a"), Txt("b  c "), NoText, CData(" d"), Comment("k"),
      El("e", <<>>, <<Txt(" z "), CData("w")>>) }

PartSeqs == UNION {[1..n -> TreeParts] : n \in 0..MaxParts}

\* <r><x><r><e>in</e></r></x><e>out</e></r>
NestedFirst ==
    <<El("r", <<>>, <<El("x", <<>>, <<El("r", <<>>, <<El("e", <<>>, <<Txt("in")>>)>>)>>),
                      El("e", <<>>, <<Txt("out")>>)>>)>>

\* <r><e>out</e><x><r><e>in</e></r></x></r>
NestedLast ==
    <<El("r", <<>>, <<El("e", <<>>, <<Txt("out")>>),
                      El("x", <<>>, <<El("r", <<>>, <<El("e", <<>>, <<Txt("in")>>)>>)>>)>>)>>

\* the documents: one root element r with up to MaxParts children, and the
\* two nested documents above
TreeDocs ==
    {<<El("r", <<>>, parts)>> : parts \in PartSeqs} \cup {NestedFirst, NestedLast}

\* the path strings looked up, written with dots
TreePaths ==
    {"r[1]", "r[1].e[1]", "r[1].e[2]", "r[1].x[1].r[1].e[1]", "r.e", " r..e[3] ",
     "e[2]", "r[1].e[9]", "q", " "}

RECURSIVE Slashed(_)
\* a path string with its dots turned into slashes
Slashed(str) ==
    IF str = "" THEN ""
    ELSE (IF SubSeq(str, 1, 1) = "." THEN "/" ELSE SubSeq(str, 1, 1))
         \o Slashed(SubSeq(str, 2, Len(str)))

BulkIdle ==
    /\ bulkResults = <<>>
    /\ editedTree = None
    /\ bulkTrail = <<>>

TreeInputs ==
    /\ utElements \in TreeDocs
    /\ utPathStr \in TreePaths
    /\ utTree = None
    /\ utFound = None
    /\ utFoundSlashed = None
    /\ BulkIdle

Build ==
    /\ utTree = None
    /\ utTree' = Some(buildEditableTree(utElements))
    /\ UNCHANGED <<utElements, utPathStr, utFound, utFoundSlashed, bulkVars>>

Find ==
    /\ utTree # None
    /\ utFound = None
    /\ utFound' = Some(findNodeByParameterPath(utTree[1], utPathStr))
    /\ UNCHANGED <<utElements, utPathStr, utTree, utFoundSlashed, bulkVars>>

FindSlashed ==
    /\ utTree # None
    /\ utFoundSlashed = None
    /\ utFoundSlashed' = Some(findNodeByParameterPath(utTree[1], Slashed(utPathStr)))
    /\ UNCHANGED <<utElements, utPathStr, utTree, utFound, bulkVars>>

\* the values of the rows
BulkValues == {"9", ""}

\* the data rows of a sheet: up to MaxRows rows for one path, written with
\* dots or with slashes
RowSeqs(path) ==
    UNION {[1..n -> {[path |-> q, value |-> v] : q \in {path, Slashed(path)},
                                                  v \in BulkValues}]
           : n \in 1..MaxRows}

\* the documents whose root has element children only
BulkDocs ==
    {doc \in TreeDocs :
        \A i \in 1..Len(doc[1].elements) : doc[1].elements[i].type = "element"}

BulkInputs ==
    /\ utElements \in BulkDocs
    /\ utPathStr \in TreePaths
    /\ utTree = None
    /\ utFound = None
    /\ utFoundSlashed = None
    /\ BulkIdle

RECURSIVE Updates(_)
\* the rows with a non-blank path, path and value trimmed
Updates(rows) ==
    IF rows = <<>> THEN <<>>
    ELSE (IF Trim(Head(rows).path) # ""
          THEN <<[path |-> Trim(Head(rows).path), value |-> Trim(Head(rows).value)]>>
          ELSE <<>>)
         \o Updates(Tail(rows))

RECURSIVE BulkLoop(_, _, _, _)
\* for (const {path, value} of updates): the tree copy, the result list and
\* the trail the loop leaves
BulkLoop(treeCopy, updates, resultList, trail) ==
    IF updates = <<>>
    THEN [tree |-> treeCopy, results |-> resultList, trail |-> trail]
    ELSE LET row == Head(updates)
             call == setNodeValueByPath(treeCopy, row.path, row.value)
         IN BulkLoop(call.nodes, Tail(updates),
                     Append(resultList,
                            [path |-> row.path, value |-> row.value,
                             status |-> IF call.found THEN "updated" ELSE "not_found"]),
                     Append(trail, [before |-> treeCopy, returned |-> call.found]))

\* reader.onload of runBulkEdit, from the data rows of the sheet on
runBulkEdit ==
    /\ editedTree = None
    /\ \E rows \in RowSeqs(utPathStr) :
          LET out == BulkLoop(buildEditableTree(utElements), Updates(rows), <<>>, <<>>)
          IN /\ bulkResults' = out.results
             /\ editedTree' = Some(out.tree)
             /\ bulkTrail' = out.trail
    /\ UNCHANGED <<utElements, utPathStr, utTree, utFound, utFoundSlashed>>

UtNext ==
    \/ Build
    \/ Find
    \/ FindSlashed

\* ------------------------------------------------------------------------
\* Specifications
\* ------------------------------------------------------------------------
DiffIdle ==
    /\ dLeft = <<>>
    /\ dRight = <<>>
    /\ dResult = None

TreeIdle ==
    /\ utElements = <<>>
    /\ utPathStr = ""
    /\ utTree = None
    /\ utFound = None
    /\ utFoundSlashed = None
    /\ BulkIdle

EditorInit == EdInit /\ DiffIdle /\ TreeIdle /\ CmpInit

EditorNext == EdNext /\ UNCHANGED <<diffVars, treeVars, cmpVars, viewVars>>

\* the editor on its own
EditorSpec == EditorInit /\ [][EditorNext]_vars

HistoryInit == EdFilled /\ DiffIdle /\ TreeIdle /\ CmpInit

\* the editor from a long history on
HistorySpec == HistoryInit /\ [][EditorNext]_vars

DiffNext == RunDiff /\ UNCHANGED <<edVars, treeVars, cmpVars, viewVars>>

DiffInit == EdInit /\ DiffInputs /\ TreeIdle /\ CmpInit

TreeNext == UtNext /\ UNCHANGED <<edVars, diffVars, cmpVars, viewVars>>

TreeInit == EdInit /\ DiffIdle /\ TreeInputs /\ CmpInit

\* utils/xmlTree on its own
TreeSpec == TreeInit /\ [][TreeNext]_vars

BulkNext == runBulkEdit /\ UNCHANGED <<edVars, diffVars, cmpVars, viewVars>>

BulkInit == EdInit /\ DiffIdle /\ BulkInputs /\ CmpInit

\* the bulk editor on its own
BulkSpec == BulkInit /\ [][BulkNext]_vars

DiffSpec == DiffInit /\ [][DiffNext]_vars

ViewInit == EdInit /\ DiffIdle /\ TreeIdle /\ Compared

ViewNext == ViewActions /\ UNCHANGED <<edVars, diffVars, treeVars, cmpVars>>

\* the differences view over the result of a finished comparison
ViewSpec == ViewInit /\ [][ViewNext]_vars

Init == EdInit /\ DiffIdle /\ TreeIdle /\ CmpInit

Next == CmpNext /\ UNCHANGED <<edVars, diffVars, treeVars, viewVars>>

\* the comparison view and its worker
Spec == Init /\ [][Next]_vars

UncaughtNext == (CmpNext \/ EngineUncaught) /\ UNCHANGED <<edVars, diffVars, treeVars, viewVars>>

\* the comparison view with a worker that lets errors escape
UncaughtSpec == Init /\ [][UncaughtNext]_vars

\* the worker's event loop keeps running and its messages keep arriving
FairSpec ==
    /\ Spec
    /\ WF_vars(EngineStep /\ UNCHANGED <<edVars, diffVars, treeVars, viewVars>>)
    /\ WF_vars(HostReceive /\ UNCHANGED <<edVars, diffVars, treeVars, viewVars>>)

\* ------------------------------------------------------------------------
\* Properties of the comparison protocol
\* ------------------------------------------------------------------------
LeftFailed == eng.leftResult # None /\ ~eng.leftResult[1].ok

RightFailed == eng.rightResult # None /\ ~eng.rightResult[1].ok

\* the host takes the terminal message of the request it is waiting for
HostFinishes == isComparing /\ ~isComparing'

\* the steps of the request state machine
PhaseStep ==
    \/ /\ eng'.req # eng.req
       /\ eng.phase \in {"Idle", "Done", "Failed"}
       /\ eng'.phase = "ParsingLeft"
    \/ /\ eng'.req = eng.req
       /\ \/ eng.phase = "ParsingLeft" /\ eng'.phase = "ParsingRight"
          \/ /\ eng.phase = "ParsingRight" /\ eng'.phase = "Diffing"
             /\ eng'.leftResult[1].ok /\ eng'.rightResult[1].ok
          \/ /\ eng.phase = "Diffing" /\ eng'.phase = "Done"
             /\ eng.leftResult[1].ok /\ eng.rightResult[1].ok
             /\ eng.chunk = eng.chunks
          \/ /\ eng'.phase = "Failed"
             /\ \/ eng.phase = "ParsingRight" /\ (LeftFailed' \/ RightFailed')
                \/ eng.phase \in {"ParsingLeft", "ParsingRight", "Diffing"} /\ eng'.fault

\* C1: a request goes through Idle, Parsing(left), Parsing(right), Diffing in
\* that order and ends in Done or Failed; Done only after both documents
\* parsed and the diff completed, Failed only from a parsing phase or from
\* an internal fault; the host shows a result only for a request that is Done.
C1_RequestPhases ==
    [][ /\ (eng'.phase # eng.phase \/ eng'.req # eng.req) => PhaseStep
        /\ (HostFinishes /\ lastRun' # lastRun)
              => /\ eng.phase = "Done"
                 /\ Parse(eng.leftXml).ok /\ Parse(eng.rightXml).ok
                 /\ progress # None /\ progress[1].phase = "diff"
        /\ (HostFinishes /\ lastRun' = lastRun) => eng.phase = "Failed"
      ]_vars

C1_Witness ==
    /\ ~isComparing
    /\ lastRun = Some(2)
    /\ eng.phase = "Done"
    /\ eng.req = 2
    /\ outbox = <<>>
    /\ differences # <<>>

TerminalsInOrder ==
    \A i, j \in 1..Len(outbox) :
        (i < j /\ outbox[i].type \in {"done", "error"}) => outbox[j].req # outbox[i].req

TerminalHandled(r) == r <= Len(seen) /\ seen[r].terminals = 1

\* C2: for every request posted to the engine exactly one terminal message
\* (done or error) is eventually handled by the host, after every progress
\* message of that request, and the host handles no message of the request
\* after it.
C2_OneTerminal ==
    /\ [](\A r \in 1..Len(seen) : seen[r].terminals <= 1 /\ ~seen[r].late)
    /\ []TerminalsInOrder
    /\ \A r \in 1..MaxRequests : (reqCount >= r) ~> TerminalHandled(r)

C2_Witness ==
    /\ reqCount = 2
    /\ seen[1].terminals = 1
    /\ seen[2].terminals = 1
    /\ listeners = <<>>
    /\ outbox = <<>>

\* C3: when a document fails to parse the diff phase never runs and the
\* request ends with an error message, never with done; the host gets
\* leftError exactly when the left parse failed and rightError exactly when
\* the right parse failed.
C3_ParseErrors ==
    [][ /\ eng'.phase \in {"Diffing", "Done"}
              => Parse(eng'.leftXml).ok /\ Parse(eng'.rightXml).ok
        /\ (HostFinishes /\ (~Parse(eng.leftXml).ok \/ ~Parse(eng.rightXml).ok))
              => /\ Head(outbox).type = "error"
                 /\ lastRun' = lastRun
        /\ (HostFinishes /\ (LeftFailed \/ RightFailed))
              => /\ (leftError' # Undefined) <=> LeftFailed
                 /\ (rightError' # Undefined) <=> RightFailed
      ]_vars

C3_Witness ==
    /\ ~isComparing
    /\ eng.phase = "Failed"
    /\ ~eng.fault
    /\ eng.leftXml = mismatchedTag
    /\ Parse(eng.rightXml).ok
    /\ outbox = <<>>
    /\ leftError # Undefined
    /\ rightError = Undefined

PhaseRank(phase) ==
    CASE phase = "left" -> 1
      [] phase = "right" -> 2
      [] phase = "diff" -> 3
      [] OTHER -> 0

\* C4: every progress percent the host is given is an integer in 0..100, the
\* percents within one phase do not decrease, and the phases come in the
\* order left, right, diff with no return to an earlier one.
C4_ProgressOrder ==
    [][ (progress # None /\ progress' # None /\ progress' # progress)
            => /\ progress'[1].percent \in 0..100
               /\ progress'[1].phase \in {"left", "right", "diff"}
               /\ PhaseRank(progress'[1].phase) >= PhaseRank(progress[1].phase)
               /\ progress'[1].phase = progress[1].phase
                     => progress'[1].percent >= progress[1].percent
      ]_vars

C4_Witness ==
    /\ isComparing
    /\ progress # None
    /\ progress[1].phase = "diff"
    /\ progress[1].percent = 100
    /\ eng.chunks = 2
    /\ eng.phase = "Done"

\* ------------------------------------------------------------------------
\* Properties of the editor tree
\* ------------------------------------------------------------------------
\* the path the Name[k] numbering gives to the i-th node of a sibling list
CanonicalPath(nodes, i, prefix) ==
    LET k == Cardinality({j \in 1..i : nodes[j].name = nodes[i].name})
    IN (IF prefix = "" THEN "" ELSE prefix \o ".")
       \o nodes[i].name \o "[" \o ToString(k) \o "]"

RECURSIVE Canonical(_, _)
Canonical(nodes, prefix) ==
    \A i \in 1..Len(nodes) :
        /\ nodes[i].path = CanonicalPath(nodes, i, prefix)
        /\ nodes[i].id = nodes[i].path
        /\ Canonical(nodes[i].children, nodes[i].path)

RECURSIVE MirrorsElements(_, _)
\* the nodes are the element children of the parsed document, in order
MirrorsElements(nodes, elements) ==
    LET els == SeqFilterEl(elements) IN
    /\ Len(nodes) = Len(els)
    /\ \A i \in 1..Len(nodes) :
          /\ nodes[i].name = els[i].name
          /\ MirrorsElements(nodes[i].children, els[i].elements)

\* C5: buildEditableTree and regenerateIds give every element the path
\* <parent path>.<Name>[k] (no prefix at the top level), k being the 1-based
\* count of the elements named Name among the parent's element children up
\* to and including this one, counted per name and per parent.
C5_PathNumbering ==
    /\ (lastOp = "load" /\ error = Null /\ Trim(xmlContent) # "")
          => /\ MirrorsElements(tree, Xml2js(xmlContent).elements)
             /\ Canonical(tree, "")
    /\ (lastOp = "duplicatePath" /\ ~thrown) => Canonical(tree, "")

C5_Witness ==
    /\ lastOp = "load"
    /\ xmlContent = EdItems
    /\ Len(tree) = 1
    /\ Len(tree[1].children) = 3
    /\ tree[1].children[2].path = "r[1].i1[2]"
    /\ tree[1].children[3].path = "r[1].b.c[1]"

\* C6: no two nodes of the editor tree have the same id, after a load and
\* after any sequence of updateNodeValue, updateNodeAttribute, deleteNode,
\* duplicatePath, undo and redo.
C6_UniqueIds ==
    LET flat == Flatten(tree)
    IN \A i, j \in 1..Len(flat) :
          i # j => /\ flat[i].id # flat[j].id
                   /\ flat[i].path # flat[j].path

C6_Witness ==
    /\ lastOp = "duplicatePath"
    /\ ~thrown
    /\ Len(history) >= 3
    /\ \E i \in 1..Len(Flatten(tree)) : Flatten(tree)[i].id = "r[1].i3[1].p[1]"

\* ------------------------------------------------------------------------
\* Properties of the diff engine
\* ------------------------------------------------------------------------
Diffs == dResult[1].differences

HasPrefix(str, prefix) ==
    Len(str) >= Len(prefix) /\ SubSeq(str, 1, Len(prefix)) = prefix

\* number of records of one kind at a path
RecordsAt(path, kind) ==
    Cardinality({i \in 1..Len(Diffs) : Diffs[i].path = path /\ Diffs[i].change = kind})

AnyRecordsAt(path) == Cardinality({i \in 1..Len(Diffs) : Diffs[i].path = path})

\* number of records whose path lies below a path
RecordsBelow(path) ==
    Cardinality({i \in 1..Len(Diffs) : HasPrefix(Diffs[i].path, path \o ".")})

ElementKids(el) == SeqFilterEl(el.elements)

Occurrences(siblings, name) ==
    Cardinality({j \in 1..Len(siblings) : siblings[j].name = name})

\* the i-th sibling called name
Occurrence(siblings, name, i) ==
    siblings[CHOOSE j \in 1..Len(siblings) :
                /\ siblings[j].name = name
                /\ Cardinality({q \in 1..j : siblings[q].name = name}) = i]

NamesOf(siblings) == {siblings[j].name : j \in 1..Len(siblings)}

PathUnder(prefix, name, i) ==
    (IF prefix = "" THEN "" ELSE prefix \o ".") \o name \o "[" \o ToString(i) \o "]"

Larger(m, n) == IF m > n THEN m ELSE n

\* C7: comparing a valid document with itself gives an empty differences
\* list and the stats {added: 0, removed: 0, changed: 0}.
C7_Identity ==
    (dResult # None /\ dLeft = dRight)
        => /\ dResult[1].differences = <<>>
           /\ dResult[1].stats = [added |-> 0, removed |-> 0, changed |-> 0]

C7_Witness ==
    /\ dResult # None
    /\ dLeft = dRight
    /\ Len(ElementKids(dLeft[1])) = 2
    /\ \E j \in 1..2 : Len(ElementKids(dLeft[1])[j].attributes) = 2
    /\ dResult[1].differences = <<>>

RECURSIVE Aligned(_, _, _)
\* the records say that the element children of two matched parents were
\* paired by name and occurrence number
Aligned(left, right, prefix) ==
    \A name \in NamesOf(left) \cup NamesOf(right) :
        LET m == Occurrences(left, name)
            n == Occurrences(right, name)
        IN \A i \in 1..Larger(m, n) :
              LET p == PathUnder(prefix, name, i) IN
              IF i <= m /\ i <= n
              THEN LET l == Occurrence(left, name, i)
                       r == Occurrence(right, name, i)
                       lt == TextValue(l)
                       rt == TextValue(r)
                   IN /\ AnyRecordsAt(p) = 0
                      /\ IF lt = rt THEN AnyRecordsAt(p \o ".#text") = 0
                         ELSE /\ AnyRecordsAt(p \o ".#text") = 1
                              /\ \E k \in 1..Len(Diffs) :
                                    Diffs[k] = [path |-> p \o ".#text", change |-> "changed",
                                                leftValue |-> lt, rightValue |-> rt]
                      /\ Aligned(ElementKids(l), ElementKids(r), p)
              ELSE IF i <= m
              THEN RecordsAt(p, "removed") = 1 /\ AnyRecordsAt(p) = 1
              ELSE RecordsAt(p, "added") = 1 /\ AnyRecordsAt(p) = 1

\* C8: among the element children of two matched parents, the i-th left
\* child of a name is matched with the i-th right child of that name and no
\* other; with m left and n right children of a name, exactly the left
\* occurrences above n are removed and exactly the right occurrences above m
\* are added.
C8_PositionalAlignment ==
    dResult # None => Aligned(SeqFilterEl(dLeft), SeqFilterEl(dRight), "")

C8_Witness ==
    /\ dResult # None
    /\ Occurrences(ElementKids(dLeft[1]), "a") = 2
    /\ Occurrences(ElementKids(dRight[1]), "a") = 1
    /\ Occurrences(ElementKids(dRight[1]), "b") = 1
    /\ RecordsAt("r[1].a[2]", "removed") = 1
    /\ RecordsAt("r[1].b[1]", "added") = 1
    /\ RecordsAt("r[1].a[1].#text", "changed") = 1

\* positions at which two sibling lists of equal length differ
DifferAt(left, right) == {j \in 1..Len(left) : left[j] # right[j]}

RECURSIVE AppendSites(_, _, _)
\* {[path, el]} when right is left with the one element el appended as last
\* child of some parent, path being the path of el; {} otherwise
AppendSites(left, right, prefix) ==
    IF Len(left) # Len(right) \/ Cardinality(DifferAt(left, right)) # 1 THEN {}
    ELSE LET j == CHOOSE q \in DifferAt(left, right) : TRUE
             l == left[j]
             r == right[j]
         IN IF l.type # "element" \/ r.type # "element" THEN {}
            ELSE IF l.name # r.name \/ l.attributes # r.attributes THEN {}
            ELSE LET here == PathUnder(prefix, r.name,
                                Cardinality({q \in 1..j : /\ right[q].type = "element"
                                                          /\ right[q].name = r.name}))
                 IN IF /\ Len(r.elements) = Len(l.elements) + 1
                       /\ SubSeq(r.elements, 1, Len(l.elements)) = l.elements
                       /\ r.elements[Len(r.elements)].type = "element"
                    THEN LET e == r.elements[Len(r.elements)]
                         IN {[path |-> PathUnder(here, e.name,
                                          Occurrences(ElementKids(r), e.name)),
                              el |-> e]}
                    ELSE AppendSites(l.elements, r.elements, here)

\* the records of one kind expected for an element that one side lacks
OwnRecordCount(el) ==
    1 + Len(el.attributes) + (IF TextValue(el) # "" THEN 1 ELSE 0)

OwnRecords(site, kind) ==
    /\ RecordsAt(site.path, kind) = 1
    /\ \A k \in 1..Len(site.el.attributes) :
          RecordsAt(site.path \o ".@" \o site.el.attributes[k].key, kind) = 1
    /\ TextValue(site.el) # "" => RecordsAt(site.path \o ".#text", kind) = 1

\* C9: when the right document is the left one with one element appended as
\* last child of some parent, the diff is one added record at the new
\* element's path, one per attribute of it and one for its text if it has
\* any; stats.added is that number and removed and changed are 0.  The same
\* with removed when the element is taken away.
C9_SingleAppend ==
    dResult # None =>
        /\ \A site \in AppendSites(dLeft, dRight, "") :
              /\ OwnRecords(site, "added")
              /\ Len(Diffs) = OwnRecordCount(site.el)
              /\ dResult[1].stats = [added |-> OwnRecordCount(site.el),
                                     removed |-> 0, changed |-> 0]
        /\ \A site \in AppendSites(dRight, dLeft, "") :
              /\ OwnRecords(site, "removed")
              /\ Len(Diffs) = OwnRecordCount(site.el)
              /\ dResult[1].stats = [added |-> 0,
                                     removed |-> OwnRecordCount(site.el), changed |-> 0]

C9_Witness ==
    /\ dResult # None
    /\ AppendSites(dLeft, dRight, "") # {}
    /\ \E site \in AppendSites(dLeft, dRight, "") :
          /\ site.path = "r[1].b[1].c[2]"
          /\ Len(site.el.attributes) = 1
    /\ Len(Diffs) = 3
    /\ dResult[1].stats.added = 3

RECURSIVE OneSidedNodes(_, _, _)
\* the elements that only one of two matched sibling lists has, with their
\* paths, through all matched pairs below
OneSidedNodes(left, right, prefix) ==
    UNION { LET m == Occurrences(left, name)
                n == Occurrences(right, name)
            IN UNION { LET p == PathUnder(prefix, name, i) IN
                       IF i <= m /\ i <= n
                       THEN OneSidedNodes(ElementKids(Occurrence(left, name, i)),
                                          ElementKids(Occurrence(right, name, i)), p)
                       ELSE IF i <= m
                       THEN {[path |-> p, el |-> Occurrence(left, name, i), kind |-> "removed"]}
                       ELSE {[path |-> p, el |-> Occurrence(right, name, i), kind |-> "added"]}
                     : i \in 1..Larger(m, n) }
          : name \in NamesOf(left) \cup NamesOf(right) }

OneSidedHere == OneSidedNodes(SeqFilterEl(dLeft), SeqFilterEl(dRight), "")

RECURSIVE MatchedPairs(_, _, _)
\* the pairs of elements matched by name and occurrence, with their paths,
\* through all matched pairs below
MatchedPairs(left, right, prefix) ==
    UNION { LET m == Occurrences(left, name)
                n == Occurrences(right, name)
            IN UNION { LET p == PathUnder(prefix, name, i)
                           l == Occurrence(left, name, i)
                           r == Occurrence(right, name, i)
                       IN IF i <= m /\ i <= n
                          THEN {[path |-> p, l |-> l, r |-> r]}
                               \cup MatchedPairs(ElementKids(l), ElementKids(r), p)
                          ELSE {}
                     : i \in 1..Larger(m, n) }
          : name \in NamesOf(left) \cup NamesOf(right) }

MatchedHere == MatchedPairs(SeqFilterEl(dLeft), SeqFilterEl(dRight), "")

KeysOf(attrs) == {attrs[k].key : k \in 1..Len(attrs)}

KeyIndex(attrs, key) == CHOOSE k \in 1..Len(attrs) : attrs[k].key = key

HasRecord(rec) == \E k \in 1..Len(Diffs) : Diffs[k] = rec

\* the records of one matched pair for one attribute key
AttributeRecords(pair, key) ==
    LET p == pair.path \o ".@" \o key
        la == pair.l.attributes
        ra == pair.r.attributes
    IN IF key \in KeysOf(la) /\ key \in KeysOf(ra)
       THEN IF la[KeyIndex(la, key)].value = ra[KeyIndex(ra, key)].value
            THEN AnyRecordsAt(p) = 0
            ELSE /\ AnyRecordsAt(p) = 1
                 /\ HasRecord([path |-> p, change |-> "changed",
                               leftValue |-> la[KeyIndex(la, key)].value,
                               rightValue |-> ra[KeyIndex(ra, key)].value])
       ELSE IF key \in KeysOf(ra)
       THEN /\ AnyRecordsAt(p) = 1
            /\ HasRecord([path |-> p, change |-> "added",
                          rightValue |-> ra[KeyIndex(ra, key)].value])
       ELSE /\ AnyRecordsAt(p) = 1
            /\ HasRecord([path |-> p, change |-> "removed",
                          leftValue |-> la[KeyIndex(la, key)].value])

\* C11: for every matched pair of elements at path p and every attribute
\* key, a key only on the right gives one added record at p.@key, a key only
\* on the left one removed record, a key on both sides with different values
\* one changed record carrying both values, and a key with equal values no
\* record; <a x="1"/> against <a x="2"/> gives the single record
\* {a[1].@x, changed, 1, 2} and the stats {0, 0, 1}.
C11_AttributeRecords ==
    dResult # None =>
        /\ \A pair \in MatchedHere :
              \A key \in KeysOf(pair.l.attributes) \cup KeysOf(pair.r.attributes) :
                  AttributeRecords(pair, key)
        /\ (dLeft = AttrChangeLeft /\ dRight = AttrChangeRight) =>
              /\ Diffs = <<[path |-> "a[1].@x", change |-> "changed",
                            leftValue |-> "1", rightValue |-> "2"]>>
              /\ dResult[1].stats = [added |-> 0, removed |-> 0, changed |-> 1]

\* b x="1" against b x="2" y="1": x changed, y added
C11_Witness ==
    /\ dResult # None
    /\ \E pair \in MatchedHere :
          /\ pair.path = "r[1].b[1]"
          /\ KeysOf(pair.l.attributes) = {"x"}
          /\ KeysOf(pair.r.attributes) = {"x", "y"}
    /\ RecordsAt("r[1].b[1].@x", "changed") = 1
    /\ RecordsAt("r[1].b[1].@y", "added") = 1

\* ------------------------------------------------------------------------
\* Properties of the comparison results held by the host
\* ------------------------------------------------------------------------
CountKind(records, kind) ==
    Cardinality({i \in 1..Len(records) : records[i].change = kind})

Counted(records, st) ==
    /\ st.added = CountKind(records, "added")
    /\ st.removed = CountKind(records, "removed")
    /\ st.changed = CountKind(records, "changed")

\* C12: stats.added, stats.removed and stats.changed equal the number of
\* records of that kind in the differences they accompany, in every done
\* message and in the host's state after any sequence of compare, progress,
\* done, error, worker-error and input-change events.
C12_StatsAreCounts ==
    /\ Counted(differences, stats)
    /\ \A i \in 1..Len(outbox) :
          outbox[i].type = "done" => Counted(outbox[i].differences, outbox[i].stats)

\* results of a first run on display while the second run's worker error
\* is on its way
C12_Witness ==
    /\ differences # <<>>
    /\ stats.added + stats.removed + stats.changed = Len(differences)
    /\ reqCount = 2
    /\ \E i \in 1..Len(outbox) : outbox[i].type = "uncaught" /\ outbox[i].req = 2

\* ------------------------------------------------------------------------
\* Properties of utils/xmlTree
\* ------------------------------------------------------------------------
RECURSIVE ConcatUpTo(_, _)
\* the texts of the text and CDATA nodes among the first n children of an
\* element, one after the other
ConcatUpTo(kids, n) ==
    IF n = 0 THEN ""
    ELSE ConcatUpTo(kids, n - 1)
         \o (IF kids[n].type \in {"text", "cdata"} /\ "text" \in DOMAIN kids[n]
             THEN kids[n].text ELSE "")

\* a string without its leading and trailing whitespace
Stripped(str) ==
    LET inked == {i \in 1..Len(str) : SubSeq(str, i, i) \notin {" ", "\n", "\t"}}
    IN IF inked = {} THEN ""
       ELSE SubSeq(str, CHOOSE i \in inked : \A j \in inked : i <= j,
                        CHOOSE i \in inked : \A j \in inked : i >= j)

RECURSIVE ValuesFromText(_, _)
\* every node holds the stripped text of the element it was built from
ValuesFromText(nodes, elements) ==
    /\ Len(nodes) = Len(SeqFilterEl(elements))
    /\ \A i \in 1..Len(nodes) :
          LET el == SeqFilterEl(elements)[i] IN
          /\ nodes[i].value = Stripped(ConcatUpTo(el.elements, Len(el.elements)))
          /\ ValuesFromText(nodes[i].children, el.elements)

\* C13: for every element, buildEditableTree sets the node's value to the
\* concatenation, in document order, of the text of its text and CDATA
\* children (a child without text counts as empty), with leading and
\* trailing whitespace removed and inner whitespace kept; child elements and
\* other node types contribute nothing.
C13_TextValue ==
    utTree # None => ValuesFromText(utTree[1], utElements)

\* <r>b  c <e> z <![CDATA[w]]></e><![CDATA[ d]]></r> gives "b  c  d" for r
\* and "z w" for e
C13_Witness ==
    /\ utTree # None
    /\ utElements[1].elements = <<Txt("b  c "), El("e", <<>>, <<Txt(" z "), CData("w")>>),
                                   CData(" d")>>
    /\ utTree[1][1].value = "b  c  d"
    /\ utTree[1][1].children[1].value = "z w"

\* the host's listener takes an error terminal
HandlesError ==
    /\ outbox # <<>>
    /\ Head(outbox).type = "error"
    /\ outbox' = Tail(outbox)
    /\ listeners # <<>>

\* C15: a request that ends with an error message is never silently
\* swallowed by the host: after the host handled the error terminal,
\* comparing has ended and at least one of leftError / rightError is set,
\* also when the message carries neither field (internal fault).
C15_ErrorSurfaced ==
    [][ HandlesError => /\ ~isComparing'
                        /\ (leftError' # Undefined \/ rightError' # Undefined)
      ]_vars

\* ------------------------------------------------------------------------
\* Properties of the editor's structural edits and history
\* ------------------------------------------------------------------------
\* C14: after every structural edit of the editor tree (deleteNode,
\* duplicatePath) the id and path of every node equal the canonical path the
\* Name[k] numbering assigns to the node from the tree's current structure.
C14_CanonicalAfterEdit ==
    (lastOp \in {"deleteNode", "duplicatePath"} /\ ~thrown) => Canonical(tree, "")

RECURSIVE SameShape(_, _)
\* two nodes with the same name, value, attributes and child structure
SameShape(a, b) ==
    /\ a.name = b.name
    /\ a.value = b.value
    /\ a.attributes = b.attributes
    /\ Len(a.children) = Len(b.children)
    /\ \A i \in 1..Len(a.children) : SameShape(a.children[i], b.children[i])

\* copy has the value, attributes and descendants of source
CopyOf(copy, source) ==
    /\ copy.value = source.value
    /\ copy.attributes = source.attributes
    /\ Len(copy.children) = Len(source.children)
    /\ \A i \in 1..Len(source.children) : SameShape(copy.children[i], source.children[i])

RECURSIVE AppendedCopy(_, _, _)
\* after is before with a copy of the node id appended after the siblings
\* of that node, every other node being kept
AppendedCopy(before, after, id) ==
    \/ /\ \E i \in 1..Len(before) :
              /\ before[i].id = id
              /\ Len(after) = Len(before) + 1
              /\ CopyOf(after[Len(after)], before[i])
        /\ \A j \in 1..Len(before) : j <= Len(after) /\ SameShape(before[j], after[j])
    \/ /\ Len(after) = Len(before)
        /\ \E i \in 1..Len(before) :
              /\ before[i].name = after[i].name
              /\ before[i].value = after[i].value
              /\ before[i].attributes = after[i].attributes
              /\ AppendedCopy(before[i].children, after[i].children, id)
              /\ \A j \in 1..Len(before) : j # i => SameShape(before[j], after[j])

DuplicateStep == lastOp' = "duplicatePath" /\ opCount' = opCount + 1

\* C16: duplicatePath applied to any node of the tree, top-level nodes
\* included, completes without fault and leaves a tree in which one new node
\* has been appended after the existing siblings of that node, the new node
\* being a copy of it with all its descendants, while every node that
\* existed before is kept with its name, value, attributes and children.
C16_DuplicateAnyNode ==
    [][ DuplicateStep => /\ ~thrown'
                         /\ \E id \in RenderedIds(tree) : AppendedCopy(tree, tree', id)
      ]_vars

\* number of digits a name ends with
TrailingDigits(name) ==
    LET runs == {k \in 0..Len(name) :
                    \A j \in (Len(name) - k + 1)..Len(name) :
                        SubSeq(name, j, j) \in {"0", "1", "2", "3", "4", "5", "6", "7", "8", "9"}}
    IN CHOOSE k \in runs : \A q \in runs : q <= k

\* a name without its trailing digits
Stem(name) == SubSeq(name, 1, Len(name) - TrailingDigits(name))

\* the number a name ends with, 0 without trailing digits
NumberOf(name) ==
    IF TrailingDigits(name) = 0 THEN 0
    ELSE CHOOSE n \in 0..99 :
            ToString(n) = SubSeq(name, Len(name) - TrailingDigits(name) + 1, Len(name))

NamedAsStated(source, siblings, copy) ==
    LET numbers == {NumberOf(siblings[j].name) :
                       j \in {q \in 1..Len(siblings) :
                                 Stem(siblings[q].name) = Stem(source.name)}}
        n == CHOOSE m \in numbers \cup {0} : \A q \in numbers : q <= m
    IN /\ copy.name = Stem(source.name) \o ToString(n + 1)
       /\ \A j \in 1..Len(siblings) : siblings[j].name # copy.name

RECURSIVE CopyNamed(_, _, _)
\* the node appended after the siblings of the node id is named as stated
CopyNamed(before, after, id) ==
    \/ \E i \in 1..Len(before) :
          /\ before[i].id = id
          /\ Len(after) = Len(before) + 1
          /\ NamedAsStated(before[i], before, after[Len(after)])
    \/ /\ Len(after) = Len(before)
        /\ \E i \in 1..Len(before) :
              CopyNamed(before[i].children, after[i].children, id)

\* C17: the name duplicatePath gives to the copy is the source name with its
\* trailing digits removed followed by n+1, n being the largest trailing
\* number among the siblings with the same base name (0 for a sibling
\* without trailing digits); duplicating i1 when no higher-numbered sibling
\* exists creates i2, and the new name differs from the name of every
\* existing sibling.
C17_DuplicateName ==
    [][ (DuplicateStep /\ ~thrown') =>
            \E id \in RenderedIds(tree) :
                /\ AppendedCopy(tree, tree', id)
                /\ CopyNamed(tree, tree', id)
      ]_vars

\* <r><i1><p>1</p></i1><i2>2</i2></r> after duplicating i1 and then p
C17_Witness ==
    /\ lastOp = "duplicatePath"
    /\ ~thrown
    /\ Len(tree) = 1
    /\ Len(tree[1].children) = 3
    /\ tree[1].children[1].name = "i1"
    /\ tree[1].children[2].name = "i2"
    /\ tree[1].children[3].name = "i3"
    /\ Len(tree[1].children[1].children) = 2
    /\ tree[1].children[1].children[2].name = "p1"

\* a handler that calls saveToHistory has run
SaveStep ==
    /\ opCount' = opCount + 1
    /\ \/ lastOp' \in {"updateNodeValue", "updateNodeAttribute", "deleteNode"}
       \/ lastOp' = "duplicatePath" /\ ~thrown'
       \/ lastOp' = "load" /\ error' = Null /\ Trim(xmlContent') # ""

HistoryInBounds ==
    /\ Len(history') <= 50
    /\ history' # <<>> => (0 <= historyIndex' /\ historyIndex' < Len(history'))
    /\ SaveStep => historyIndex' = Len(history') - 1

\* C18 as stated: the undo history never holds more than 50 states, saving
\* a state while 50 are held drops the oldest one, and whenever the history
\* is not empty 0 <= index < length, the index being that of the last state
\* right after every save.
C18_DropsOldestAtFifty ==
    [][ /\ HistoryInBounds
        /\ (SaveStep /\ Len(history) = 50) => history' = Append(Tail(history), tree')
      ]_vars

\* C18 (amended): the undo history never holds more than 50 states, saving
\* a state while 50 are held and the index is at the last of them drops the
\* oldest one, and whenever the history is not empty 0 <= index < length,
\* the index being that of the last state right after every save.
C18_HistoryBound ==
    [][ /\ HistoryInBounds
        /\ (SaveStep /\ Len(history) = 50 /\ historyIndex = 49)
              => history' = Append(Tail(history), tree')
      ]_vars

\* 50 states held after a save that dropped the first state of the history
C18_Witness ==
    /\ Len(history) = 50
    /\ historyIndex = 49
    /\ lastOp = "updateNodeValue"
    /\ ~canRedo
    /\ history[1] # FilledHistory[1]
    /\ history[50] = tree

\* ------------------------------------------------------------------------
\* Properties of the lookup by parameter path
\* ------------------------------------------------------------------------
\* C19: if the path string given to findNodeByParameterPath equals the id of
\* a node of the tree, the function returns exactly that node, whatever
\* other nodes the tree contains.
C19_ExactIdLookup ==
    utFound # None =>
        \A i \in 1..Len(Flatten(utTree[1])) :
            Flatten(utTree[1])[i].id = utPathStr
                => utFound[1] = Some(Flatten(utTree[1])[i])

\* C20: for every tree and every path, findNodeByParameterPath returns the
\* same node (or null in both cases) whether the segments of the path are
\* separated by dots or by slashes.
C20_DotsOrSlashes ==
    (utFound # None /\ utFoundSlashed # None) => utFound[1] = utFoundSlashed[1]

RECURSIVE OnlyValueChanged(_, _, _, _)
\* after is before with the value of the node id set and nothing else
\* changed
OnlyValueChanged(before, after, id, value) ==
    /\ Len(after) = Len(before)
    /\ \A i \in 1..Len(before) :
          /\ after[i].id = before[i].id
          /\ after[i].path = before[i].path
          /\ after[i].name = before[i].name
          /\ after[i].attributes = before[i].attributes
          /\ after[i].isText = before[i].isText
          /\ after[i].value = (IF before[i].id = id THEN value ELSE before[i].value)
          /\ OnlyValueChanged(before[i].children, after[i].children, id, value)

\* the tree the k-th row left
TreeAfterRow(k) == IF k < Len(bulkTrail) THEN bulkTrail[k + 1].before ELSE editedTree[1]

\* C21: setNodeValueByPath returns true exactly when findNodeByParameterPath
\* finds a node for the path; then the value of that one node becomes the
\* given value and nothing else in the tree changes; when it returns false
\* the tree is unchanged; and the bulk editor marks the row updated exactly
\* when true was returned.
C21_SetValueByPath ==
    editedTree # None =>
        /\ Len(bulkTrail) = Len(bulkResults)
        /\ \A k \in 1..Len(bulkResults) :
              LET before == bulkTrail[k].before
                  node == findNodeByParameterPath(before, bulkResults[k].path)
              IN /\ bulkTrail[k].returned <=> node # None
                 /\ bulkResults[k].status =
                       (IF bulkTrail[k].returned THEN "updated" ELSE "not_found")
                 /\ node # None =>
                       /\ Cardinality({i \in 1..Len(Flatten(before)) :
                                          Flatten(before)[i].id = node[1].id}) = 1
                       /\ OnlyValueChanged(before, TreeAfterRow(k), node[1].id,
                                           bulkResults[k].value)
                 /\ node = None => TreeAfterRow(k) = before

\* <r><e>..</e><e>..</e>..</r> with the rows (r[1].e[2], 9) and (r[1].e[2], ""):
\* both updated, the second e ends up empty
C21_Witness ==
    /\ editedTree # None
    /\ utPathStr = "r[1].e[2]"
    /\ Len(bulkResults) = 2
    /\ bulkResults[1] = [path |-> "r[1].e[2]", value |-> "9", status |-> "updated"]
    /\ bulkResults[2] = [path |-> "r[1].e[2]", value |-> "", status |-> "updated"]
    /\ Len(editedTree[1][1].children) = 3
    /\ bulkTrail[2].before[1].children[2].value = "9"
    /\ editedTree[1][1].children[2].value = ""
    /\ editedTree[1][1].children[1].value = "z w"

\* ------------------------------------------------------------------------
\* C22: with a non-empty search text q, the view keeps a record of an enabled
\* change kind exactly when q, compared case-insensitively, occurs in the
\* record's path, in its left value or in its right value; with an empty q
\* the search removes no record
\* ------------------------------------------------------------------------
\* q occurs in the path, the left value or the right value of the record
OccursIn(d, q) ==
    \/ includes(toLowerCase(d.path), q)
    \/ "leftValue" \in DOMAIN d /\ includes(toLowerCase(d.leftValue), q)
    \/ "rightValue" \in DOMAIN d /\ includes(toLowerCase(d.rightValue), q)

C22_SearchPathsAndValues ==
    excludedQuickFilters = {} =>
        LET q == toLowerCase(Trim(filter))
            enabled == SelectSeq(differences, LAMBDA d : changeFilter[d.change])
        IN filteredDiffs =
              IF q = "" THEN enabled
              ELSE SelectSeq(enabled, LAMBDA d : OccursIn(d, q))

\* ------------------------------------------------------------------------
\* C23: whenever the host shows a non-empty differences list or non-zero
\* stats, they are the result of comparing the current left and right inputs;
\* the result of a comparison is not shown for inputs changed while it was in
\* flight
\* ------------------------------------------------------------------------
ShowsResult == differences # <<>> \/ stats # NoStats

C23_ResultOfCurrentInputs ==
    ShowsResult =>
        /\ Parse(leftXml).ok
        /\ Parse(rightXml).ok
        /\ LET outcome == DiffOutcome[Parse(leftXml).elements, Parse(rightXml).elements]
           IN differences = outcome.differences /\ stats = outcome.stats

\* ------------------------------------------------------------------------
\* C24: at most one comparison request is outstanding on the worker and at
\* most one message listener is registered; isComparing is true exactly from
\* the Compare action until the terminal message or worker error of that
\* request, Compare cannot be started while isComparing is true, and progress
\* is non-null only while isComparing is true
\* ------------------------------------------------------------------------
\* the request is posted and its terminal message or worker error is not yet
\* handled by the host
OutstandingRequest(r) ==
    \/ \E i \in 1..Len(inbox) : inbox[i].req = r
    \/ Working /\ eng.req = r
    \/ \E i \in 1..Len(outbox) :
          outbox[i].req = r /\ outbox[i].type \in {"done", "error", "uncaught"}

Outstanding == {r \in 1..reqCount : OutstandingRequest(r)}

OneAtATime ==
    /\ Cardinality(Outstanding) <= 1
    /\ Len(listeners) <= 1
    /\ isComparing <=> Outstanding # {}
    /\ \A r \in Outstanding : listeners = <<r>>
    /\ ~isComparing => listeners = <<>>
    /\ progress # None => isComparing

\* the step is the Compare action
CompareStarted == reqCount' = reqCount + 1

\* the step hands the terminal message or worker error at the head of the
\* worker's output to the host
TerminalDelivered ==
    /\ outbox # <<>>
    /\ Head(outbox).type \in {"done", "error", "uncaught"}
    /\ outbox' = Tail(outbox)

ComparingSpan ==
    /\ CompareStarted => ~isComparing /\ isComparing'
    /\ TerminalDelivered => isComparing /\ ~isComparing'
    /\ isComparing' # isComparing => CompareStarted \/ TerminalDelivered

C24_OneRequestAtATime == []OneAtATime /\ [][ComparingSpan]_vars

\* a second comparison is in flight, after the first one's terminal message,
\* and its progress is shown
C24_Witness ==
    /\ reqCount = 2
    /\ seen[1].terminals = 1
    /\ Outstanding = {2}
    /\ isComparing
    /\ listeners = <<2>>
    /\ progress # None
    /\ progress[1].phase = "diff"

\* ------------------------------------------------------------------------
\* C25: whenever the undo history is not empty, the tree shown by the editor
\* equals the history state at the current index, after any sequence of
\* document loads (valid or malformed), edits, undo and redo
\* ------------------------------------------------------------------------
C25_TreeIsCurrentHistoryState ==
    history # <<>> =>
        /\ historyIndex \in 0..(Len(history) - 1)
        /\ tree = history[historyIndex + 1]

====
